---- MODULE Spec2Model ----
(***************************************************************************)
(* rusticl command execution pipeline: the per-queue pending list, the     *)
(* batch channel and the worker thread of core/queue.rs, the events the    *)
(* worker resolves, and the kernel argument / launch path of               *)
(* api/kernel.rs and core/kernel.rs.                                        *)
(***************************************************************************)
EXTENDS Integers, Sequences, FiniteSets, TLC

\* ---------------------------------------------------------------- bounds
MaxEvents == 3      \* events created in one behaviour
MaxBatches == 2     \* batches sent over the channel in one behaviour
MaxDeps == 2        \* length of an event's wait list
MaxKernelEvents == 2 \* events created in one behaviour of the kernel path
MaxLaunches == 1    \* of them, launches that reach the backend
MaxMems == 2        \* memory objects created in one behaviour
MaxCallbacks == 2   \* destructor callbacks registered on one object
MaxRefs == 2        \* references the application holds on one object
MaxKernelNames == 4 \* length of a program's list of kernel names

\* host threads calling into the queue
Threads == {"t1", "t2"}
NoThread == "none"

\* ------------------------------------------------------- status constants
CL_COMPLETE == 0
CL_SUBMITTED == 2
CL_QUEUED == 3
CL_OUT_OF_RESOURCES == -5
CL_OUT_OF_HOST_MEMORY == -6

\* what a command's closure can return: Ok(()) or Err(code)
ClosureResults == {CL_COMPLETE, CL_OUT_OF_HOST_MEMORY}
\* what clSetUserEventStatus may store
UserStatuses == {CL_COMPLETE, CL_OUT_OF_RESOURCES}

VARIABLES
    ev,        \* events by creation index: [kind, deps, work, status, nset, seen]
    pending,   \* Queue::pending
    sent,      \* every batch sent over chan_in, in send order
    recvd,     \* number of batches the worker has received
    lock,      \* holder of the pending mutex
    pc,        \* per host thread: "idle", "queue", "flush_wait"
    targ,      \* per host thread: the event being queued / waited on
    tbatch,    \* per host thread: index in sent of the batch its flush sent
    wpc,       \* worker position: "recv", "deps", "call", "wait"
    wi,        \* worker: index into the current batch
    wj,        \* worker: index into the current event's deps
    running,   \* events whose closure is executing
    calllog,   \* events in the order their closures were invoked
    queued,    \* events in the order queue() appended them
    launches,  \* grid launches issued to the backend, in order
    kern,      \* the kernel: args, internal_args, shared_size (fixed at creation)
    values,    \* Kernel::values, one cell per argument
    kret,      \* what the last API call on the kernel returned
    clone,     \* the clone of the kernel: which cell vector it holds, 0 = no clone
    cvalues,   \* the cell vector Kernel::clone allocated
    mems,      \* memory objects by creation index
    mret,      \* the last memory API call: its arguments and what it returned
    ovl,       \* the last rect call: its arguments and what it returned
    ctx,       \* the context: its references, destructor callbacks and
               \* the callbacks invoked, in order
    prog,      \* the program: devs, src, per-device builds, kernels
    pret,      \* the last program API call: its arguments and what it returned
    chan       \* chan_in: "open" while the Queue holds the Sender, "closed"
               \* once the Queue is dropped

hostv == <<pc, targ, tbatch>>
workerv == <<recvd, wpc, wi, wj, running, calllog, launches>>
kvars == <<kern, values, kret>>
otherv == <<prog, pret, chan>>
nonprogv == <<ev, pending, sent, recvd, lock, pc, targ, tbatch, wpc, wi, wj,
              running, calllog, queued, launches, kern, values, kret, clone,
              cvalues, mems, mret, ovl, ctx, chan>>
objv == <<clone, cvalues, mems, mret, ovl, ctx, otherv>>
vars == <<ev, pending, sent, lock, queued, hostv, workerv, kvars, objv>>

\* ------------------------------------------------------------- sequences
Last(s) == s[Len(s)]

Range(s) == {s[i] : i \in 1..Len(s)}

RECURSIVE Flatten(_)
Flatten(ss) == IF ss = <<>> THEN <<>> ELSE Head(ss) \o Flatten(Tail(ss))

\* iter().rev(): the elements last to first
Reverse(s) == [i \in 1..Len(s) |-> s[Len(s) + 1 - i]]

IsInjective(s) == \A i, j \in 1..Len(s) : s[i] = s[j] => i = j

\* wait lists over the events 1..n: distinct events, at most MaxDeps of them
DepLists(n) ==
    {s \in UNION {[1..k -> 1..n] : k \in 0..MaxDeps} : IsInjective(s)}

\* ------------------------------------------------------------ core/event
\* Event::new: a command event starts queued, with its wait list and closure
EventNew(deps, work) ==
    [kind |-> "cmd", deps |-> deps, work |-> work, status |-> CL_QUEUED,
     nset |-> 0, seen |-> {}]

\* Event::new_user: a user event starts submitted and has no closure
EventNewUser ==
    [kind |-> "user", deps |-> <<>>, work |-> [k |-> "ret", r |-> CL_COMPLETE],
     status |-> CL_SUBMITTED, nset |-> 0, seen |-> {}]

\* Event::wait blocks until the status is complete or an error
Resolved(s) == s <= CL_COMPLETE

\* Event::wait on e returns its status; the value every waiter saw is kept
EventWait(evs, e) ==
    [evs EXCEPT ![e].seen = @ \cup {evs[e].status}]

\* Event::set_user_status stores the status
EventSetStatus(evs, e, s) ==
    [evs EXCEPT ![e].status = s, ![e].nset = @ + 1]

\* what a closure returns when the worker invokes it: a plain command returns
\* its result, the closure Kernel::launch built always returns Ok(())
ClosureResult(work) == IF work.k = "ret" THEN work.r ELSE CL_COMPLETE

\* ------------------------------------------------------------ the device
\* what the queue's device reports (core/device.rs)
DevMaxGridDimensions == 3
DevAddressBits == 64
DevMaxBlockSizes == <<4, 4, 4>>

\* ------------------------------------------------------------ byte layout
Zeros(n) == [i \in 1..n |-> 0]

\* n shifted right by i bytes
RECURSIVE ShrBytes(_, _)
ShrBytes(n, i) == IF i = 0 THEN n ELSE ShrBytes(n \div 256, i - 1)

\* usize::to_ne_bytes / u64 bytes on a little-endian 64 bit host
LE8(n) == [i \in 1..8 |-> ShrBytes(n, i - 1) % 256]

\* -------------------------------------------------------- memory objects
\* m1 is a root buffer, m2 a sub-buffer of m1 at offset 256
MemHandles == {"m2"}
MemOffset(m) == IF m = "m2" THEN 256 ELSE 0
\* Mem::get_res_of_dev: a sub-buffer uses its parent's resource
MemRes(m) == "res_m1"

\* ----------------------------------------------------- programs and nir
\* A built program for the queue's device: the declared kernel parameters
\* (address qualifier, whether the nir type is a sampler, glsl_get_cl_size
\* of the type), the uniform variables of the optimised shader in
\* declaration order (location, driver_location), and what the shader uses.
BuildScalars ==
    [spirv |-> << [addr |-> "private", sampler |-> FALSE, size |-> 2],
                  [addr |-> "private", sampler |-> FALSE, size |-> 1],
                  [addr |-> "private", sampler |-> FALSE, size |-> 1] >>,
     nir |-> << [location |-> 0, driver_location |-> 0],
                [location |-> 2, driver_location |-> 4],
                [location |-> 3, driver_location |-> 8] >>,
     has_constant |-> FALSE, has_printf |-> FALSE, shared_size |-> 0]

BuildMems ==
    [spirv |-> << [addr |-> "global", sampler |-> FALSE, size |-> 8],
                  [addr |-> "local", sampler |-> FALSE, size |-> 8] >>,
     nir |-> << [location |-> 0, driver_location |-> 0],
                [location |-> 1, driver_location |-> 8],
                [location |-> 2, driver_location |-> 16],
                [location |-> 3, driver_location |-> 40] >>,
     has_constant |-> TRUE, has_printf |-> FALSE, shared_size |-> 16]

\* a kernel with one sampler parameter
BuildSampler ==
    [spirv |-> << [addr |-> "private", sampler |-> TRUE, size |-> 8] >>,
     nir |-> << [location |-> 0, driver_location |-> 0],
                [location |-> 1, driver_location |-> 8] >>,
     has_constant |-> FALSE, has_printf |-> FALSE, shared_size |-> 0]

Builds == {BuildScalars, BuildMems, BuildSampler}

\* ----------------------------------------------------------- core/kernel
\* the kind match of KernelArg::from_spirv_nir
KernelArgKind(s) ==
    CASE s.addr = "private" -> IF s.sampler THEN "Sampler" ELSE "Constant"
      [] s.addr = "constant" -> "MemConstant"
      [] s.addr = "local" -> "MemLocal"
      [] s.addr = "global" -> "MemGlobal"

\* KernelArg::from_spirv_nir: pass 1, every argument starts dead at offset 0
FromSpirvNir(spirv) ==
    [i \in 1..Len(spirv) |->
        [kind |-> KernelArgKind(spirv[i]), size |-> spirv[i].size,
         offset |-> 0, dead |-> TRUE]]

\* lower_and_optimize_nir_late: the internal arguments, in their fixed order
InternalArgs(b) ==
    << [kind |-> "GlobalWorkOffsets", size |-> 24, offset |-> 0] >>
    \o (IF b.has_constant
        THEN << [kind |-> "ConstantBuffer", size |-> 8, offset |-> 0] >>
        ELSE <<>>)
    \o (IF b.has_printf
        THEN << [kind |-> "PrintfBuffer", size |-> 8, offset |-> 0] >>
        ELSE <<>>)

\* KernelArg::assign_locations: pass 2 over the surviving variables; a
\* location below args.len() is a user argument, the others are internal
RECURSIVE AssignLocations(_, _)
AssignLocations(k, nirvars) ==
    IF nirvars = <<>> THEN k
    ELSE LET v == Head(nirvars)
             n == Len(k.args)
             k2 == IF v.location < n
                   THEN [k EXCEPT !.args[v.location + 1].offset = v.driver_location,
                                  !.args[v.location + 1].dead = FALSE]
                   ELSE [k EXCEPT !.internal_args[v.location - n + 1].offset =
                                      v.driver_location]
         IN AssignLocations(k2, Tail(nirvars))

\* Kernel::new
KernelNew(b) ==
    AssignLocations([args |-> FromSpirvNir(b.spirv),
                     internal_args |-> InternalArgs(b),
                     shared_size |-> b.shared_size],
                    b.nir)

\* the cells of a new kernel: RefCell::new(None) per argument
Unset == [t |-> "Unset"]
ValuesNew(k) == [i \in 1..Len(k.args) |-> Unset]

\* create_kernel_arr: val in all three slots, then the given components
CreateKernelArr(vals, val) ==
    [i \in 1..3 |-> IF i <= Len(vals) THEN vals[i] ELSE val]

\* the block loop of Kernel::launch: a zero block component is chosen, a
\* given one divides the grid component
LaunchBlock_Given(block, grid) == block
LaunchBlock(block, grid) ==
    [i \in 1..3 |->
        IF block[i] = 0
        THEN IF i = 1 /\ grid[1] % DevMaxBlockSizes[1] = 0
             THEN DevMaxBlockSizes[1] ELSE 1
        ELSE block[i]]

LaunchGrid(block, grid) ==
    [i \in 1..3 |->
        IF block[i] = 0
        THEN IF i = 1 /\ grid[1] % DevMaxBlockSizes[1] = 0
             THEN grid[1] \div DevMaxBlockSizes[1] ELSE grid[i]
        ELSE grid[i] \div block[i]]

\* input.append(&mut vec![0; arg.offset - input.len()]): usize underflow
\* when the offset lies before the end of what was written
PadTo_None(acc, offset) == acc
PadTo(acc, offset) ==
    IF offset < Len(acc.input)
    THEN [acc EXCEPT !.panic = TRUE]
    ELSE [acc EXCEPT !.input = @ \o Zeros(offset - Len(acc.input))]

\* one iteration of the argument loop of Kernel::launch
LaunchArg(acc, arg, val) ==
    IF arg.dead THEN acc
    ELSE LET p == PadTo(acc, arg.offset)
         IN CASE val.t = "Constant" ->
                   [p EXCEPT !.input = @ \o val.bytes]
              [] val.t = "MemObject" ->
                   [p EXCEPT !.input = @ \o LE8(MemOffset(val.mem)),
                             !.resources = Append(@, [res |-> MemRes(val.mem),
                                                      offset |-> arg.offset])]
              [] val.t = "LocalMem" ->
                   [p EXCEPT !.input = @ \o Zeros(8),
                             !.local_size = @ + val.size]
              [] val.t = "None" ->
                   IF arg.kind \in {"MemGlobal", "MemConstant"}
                   THEN [p EXCEPT !.input = @ \o Zeros(8)]
                   ELSE [p EXCEPT !.panic = TRUE]
              [] OTHER -> [p EXCEPT !.panic = TRUE]

RECURSIVE LaunchArgs(_, _, _, _)
LaunchArgs(acc, args, vals, i) ==
    IF i > Len(args) THEN acc
    ELSE LaunchArgs(LaunchArg(acc, args[i], vals[i]), args, vals, i + 1)

\* one iteration of the internal argument loop of Kernel::launch
LaunchInternalArg(acc, arg, offsets) ==
    LET p == PadTo(acc, arg.offset)
    IN CASE arg.kind = "ConstantBuffer" ->
              [p EXCEPT !.input = @ \o Zeros(8),
                        !.resources = Append(@, [res |-> "constant_buffer",
                                                 offset |-> arg.offset]),
                        !.host_calls = @ + 1]
         [] arg.kind = "GlobalWorkOffsets" ->
              [p EXCEPT !.input = @ \o LE8(offsets[1]) \o LE8(offsets[2])
                                     \o LE8(offsets[3])]
         [] arg.kind = "PrintfBuffer" ->
              [p EXCEPT !.input = @ \o Zeros(8),
                        !.resources = Append(@, [res |-> "printf_buffer",
                                                 offset |-> arg.offset]),
                        !.printf = TRUE]

RECURSIVE LaunchInternalArgs(_, _, _, _)
LaunchInternalArgs(acc, iargs, offsets, i) ==
    IF i > Len(iargs) THEN acc
    ELSE LaunchInternalArgs(LaunchInternalArg(acc, iargs[i], offsets),
                            iargs, offsets, i + 1)

\* Kernel::launch: everything the returned closure captures
Launch(k, vals, work_dim, block, grid, offsets) ==
    LET b == CreateKernelArr(block, 1)
        g == CreateKernelArr(grid, 1)
        o == CreateKernelArr(offsets, 0)
        acc0 == [input |-> <<>>, resources |-> <<>>,
                 local_size |-> k.shared_size, printf |-> FALSE,
                 host_calls |-> 0, panic |-> FALSE]
        acc1 == LaunchArgs(acc0, k.args, vals, 1)
        acc2 == LaunchInternalArgs(acc1, k.internal_args, o, 1)
    IN [k |-> "launch", work_dim |-> work_dim, block |-> LaunchBlock(b, g),
        grid |-> LaunchGrid(b, g), input |-> acc2.input,
        resources |-> acc2.resources, local_size |-> acc2.local_size,
        printf |-> acc2.printf, host_calls |-> acc2.host_calls,
        panic |-> acc2.panic]

\* the grid launches a closure issues on the queue's context
ClosureLaunches_Live(work) ==
    IF work.k = "launch"
    THEN <<[work_dim |-> work.work_dim, block |-> work.block,
            grid |-> work.grid,
            input |-> Launch(kern, values, work.work_dim, work.block,
                             work.grid, <<0, 0, 0>>).input,
            local_size |-> work.local_size, resources |-> work.resources]>>
    ELSE <<>>
ClosureLaunches(work) ==
    IF work.k = "launch"
    THEN <<[work_dim |-> work.work_dim, block |-> work.block,
            grid |-> work.grid, input |-> work.input,
            local_size |-> work.local_size, resources |-> work.resources]>>
    ELSE <<>>

\* ------------------------------------------------------------ core/queue
\* the batch the worker is processing: the last one it received
Batch == sent[recvd]

\* the event flush remembers before it drains: p.last()
FlushLast_First(p) == Head(p)
FlushLast(p) == Last(p)

\* flush: what drain(0..) hands to the channel and what it leaves behind
DrainBatch_Reversed(p) == [i \in 1..Len(p) |-> p[Len(p) + 1 - i]]
DrainBatch(p) == p
DrainRest_Kept(p) == p
DrainRest(p) == <<>>

\* the find(|s| *s < 0) predicate of the worker's dependency scan
DepFailed_Threshold(s) == s < CL_OUT_OF_RESOURCES
DepFailed(s) == s < 0

\* an enqueue entry point up to its q.queue(&e): the event exists and its
\* handle is written to the caller before the thread goes on to lock pending
EventCreate(t, e) ==
    /\ pc[t] = "idle"
    /\ Len(ev) < MaxEvents
    /\ ev' = Append(ev, e)
    /\ pc' = [pc EXCEPT ![t] = "queue"]
    /\ targ' = [targ EXCEPT ![t] = Len(ev) + 1]
    /\ UNCHANGED tbatch

\* a command whose closure returns Ok or an error (markers, barriers, buffer
\* transfers), with a wait list of events already created
EnqueueCommand(t) ==
    \E deps \in DepLists(Len(ev)), r \in ClosureResults :
        /\ EventCreate(t, EventNew(deps, [k |-> "ret", r |-> r]))
        /\ UNCHANGED <<pending, sent, lock, queued, workerv, kvars, objv>>

\* Queue::queue: lock pending, push, unlock
QueuePush(t) ==
    /\ pc[t] = "queue"
    /\ lock = NoThread
    /\ pending' = Append(pending, targ[t])
    /\ queued' = Append(queued, targ[t])
    /\ pc' = [pc EXCEPT ![t] = "idle"]
    /\ targ' = [targ EXCEPT ![t] = 0]
    /\ UNCHANGED <<ev, sent, lock, tbatch, workerv, kvars, objv>>

\* Queue::flush up to the wait: lock pending, remember the last event, drain
\* the list into one batch and send it; the guard p lives to the end of the
\* function, so a flush that waits keeps the mutex while it waits
FlushSend(t, wait) ==
    /\ pc[t] = "idle"
    /\ lock = NoThread
    /\ Len(sent) < MaxBatches
    /\ sent' = Append(sent, DrainBatch(pending))
    /\ pending' = DrainRest(pending)
    /\ IF wait /\ pending # <<>>
       THEN /\ pc' = [pc EXCEPT ![t] = "flush_wait"]
            /\ targ' = [targ EXCEPT ![t] = FlushLast(pending)]
            /\ tbatch' = [tbatch EXCEPT ![t] = Len(sent) + 1]
            /\ lock' = t
       ELSE UNCHANGED <<pc, targ, tbatch, lock>>
    /\ UNCHANGED <<ev, queued, workerv, kvars, objv>>

Flush(t) == \E wait \in BOOLEAN : FlushSend(t, wait)

\* Queue::flush, the wait on the last event returns and the guard is dropped
FlushReturn(t) ==
    /\ pc[t] = "flush_wait"
    /\ Resolved(ev[targ[t]].status)
    /\ ev' = EventWait(ev, targ[t])
    /\ pc' = [pc EXCEPT ![t] = "idle"]
    /\ targ' = [targ EXCEPT ![t] = 0]
    /\ tbatch' = [tbatch EXCEPT ![t] = 0]
    /\ lock' = NoThread
    /\ UNCHANGED <<pending, sent, queued, workerv, kvars, objv>>

\* finish_queue: flush(true). With events pending it is FlushSend with the
\* wait; with nothing pending last is None, an empty batch is sent and the
\* function goes on to return without a wait
FinishQueue(t) ==
    \/ pending # <<>> /\ FlushSend(t, TRUE)
    \/ /\ pending = <<>>
       /\ pc[t] = "idle"
       /\ lock = NoThread
       /\ Len(sent) < MaxBatches
       /\ sent' = Append(sent, DrainBatch(pending))
       /\ pending' = DrainRest(pending)
       /\ pc' = [pc EXCEPT ![t] = "flush_ret"]
       /\ lock' = t
       /\ UNCHANGED <<ev, queued, targ, tbatch, workerv, kvars, objv>>

\* finish_queue returns Ok(()) without having waited; the guard is dropped
FinishReturn(t) ==
    /\ pc[t] = "flush_ret"
    /\ pc' = [pc EXCEPT ![t] = "idle"]
    /\ lock' = NoThread
    /\ UNCHANGED <<ev, pending, sent, queued, targ, tbatch, workerv, kvars,
                   objv>>

\* a blocking enqueue_write_buffer, enqueue_read_buffer_rect or
\* enqueue_write_buffer_rect up to its q.queue(&e): by is the calling thread
BlockingCommand(t, r) == [k |-> "ret", r |-> r, by |-> t]
EnqueueBlocking(t) ==
    \E deps \in DepLists(Len(ev)), r \in ClosureResults :
        /\ pc[t] = "idle"
        /\ Len(ev) < MaxEvents
        /\ ev' = Append(ev, EventNew(deps, BlockingCommand(t, r)))
        /\ pc' = [pc EXCEPT ![t] = "block_queue"]
        /\ targ' = [targ EXCEPT ![t] = Len(ev) + 1]
        /\ UNCHANGED <<tbatch, pending, sent, lock, queued, workerv, kvars,
                       objv>>

\* q.queue(&e) of the blocking call: lock pending, push, unlock
BlockingPush(t) ==
    /\ pc[t] = "block_queue"
    /\ lock = NoThread
    /\ pending' = Append(pending, targ[t])
    /\ queued' = Append(queued, targ[t])
    /\ pc' = [pc EXCEPT ![t] = "block_flush"]
    /\ targ' = [targ EXCEPT ![t] = 0]
    /\ UNCHANGED <<ev, sent, lock, tbatch, workerv, kvars, objv>>

\* if block { q.flush(true)?; }: the flush of whatever is pending by now,
\* with a wait for its last event if there is one
BlockingFlush(t) ==
    /\ pc[t] = "block_flush"
    /\ lock = NoThread
    /\ Len(sent) < MaxBatches
    /\ sent' = Append(sent, DrainBatch(pending))
    /\ pending' = DrainRest(pending)
    /\ lock' = t
    /\ IF pending # <<>>
       THEN /\ pc' = [pc EXCEPT ![t] = "flush_wait"]
            /\ targ' = [targ EXCEPT ![t] = FlushLast(pending)]
            /\ tbatch' = [tbatch EXCEPT ![t] = Len(sent) + 1]
       ELSE /\ pc' = [pc EXCEPT ![t] = "flush_ret"]
            /\ UNCHANGED <<targ, tbatch>>
    /\ UNCHANGED <<ev, queued, workerv, kvars, objv>>

\* ---- the worker thread: loop { recv; for e { deps; call }; for e { wait } }
\* rx_t.recv() yields the next batch; an empty batch runs neither loop
WorkerRecv ==
    /\ wpc = "recv"
    /\ recvd < Len(sent)
    /\ recvd' = recvd + 1
    /\ wi' = 1
    /\ wj' = 1
    /\ wpc' = IF sent[recvd + 1] = <<>> THEN "recv" ELSE "deps"
    /\ UNCHANGED <<ev, pending, sent, lock, queued, hostv, running, calllog,
                   launches, kvars, objv>>

\* the first loop moves on to the next event, or to the second loop
WorkerAdvance_NextBatch ==
    wpc' = "recv" /\ wi' = 1 /\ wj' = 1
WorkerAdvance ==
    IF wi < Len(Batch)
    THEN wpc' = "deps" /\ wi' = wi + 1 /\ wj' = 1
    ELSE wpc' = "wait" /\ wi' = 1 /\ wj' = 1

\* one step of e.deps.iter().map(|e| e.wait()).find(|s| *s < 0): wait on the
\* next dependency; a negative status ends the scan and becomes e's status
WorkerWaitDep_FallThrough ==
    /\ wpc = "deps"
    /\ wj <= Len(ev[Batch[wi]].deps)
    /\ LET e == Batch[wi]
           d == ev[e].deps[wj]
           s == ev[d].status
       IN /\ Resolved(s)
          /\ IF DepFailed(s)
             THEN /\ ev' = EventSetStatus(EventWait(ev, d), e, s)
                  /\ wj' = Len(ev[e].deps) + 1
                  /\ UNCHANGED <<wpc, wi>>
             ELSE /\ ev' = EventWait(ev, d)
                  /\ wj' = wj + 1
                  /\ UNCHANGED <<wpc, wi>>
    /\ UNCHANGED <<pending, sent, lock, queued, hostv, recvd, running,
                   calllog, launches, kvars, objv>>
WorkerWaitDep ==
    /\ wpc = "deps"
    /\ wj <= Len(ev[Batch[wi]].deps)
    /\ LET e == Batch[wi]
           d == ev[e].deps[wj]
           s == ev[d].status
       IN /\ Resolved(s)
          /\ IF DepFailed(s)
             THEN /\ ev' = EventSetStatus(EventWait(ev, d), e, s)
                  /\ WorkerAdvance
             ELSE /\ ev' = EventWait(ev, d)
                  /\ wj' = wj + 1
                  /\ UNCHANGED <<wpc, wi>>
    /\ UNCHANGED <<pending, sent, lock, queued, hostv, recvd, running,
                   calllog, launches, kvars, objv>>

\* no dependency failed: e.call() invokes the closure with the queue
WorkerCall_NoWait ==
    /\ wpc = "deps"
    /\ wpc' = "call"
    /\ running' = running \cup {Batch[wi]}
    /\ calllog' = Append(calllog, Batch[wi])
    /\ UNCHANGED <<ev, pending, sent, lock, queued, hostv, recvd, wi, wj,
                   launches, kvars, objv>>
WorkerCall ==
    /\ wpc = "deps"
    /\ wj > Len(ev[Batch[wi]].deps)
    /\ wpc' = "call"
    /\ running' = running \cup {Batch[wi]}
    /\ calllog' = Append(calllog, Batch[wi])
    /\ UNCHANGED <<ev, pending, sent, lock, queued, hostv, recvd, wi, wj,
                   launches, kvars, objv>>

\* the closure returns: its backend calls are done, its result is e's status
WorkerCallDone ==
    /\ wpc = "call"
    /\ LET e == Batch[wi]
       IN /\ ev' = EventSetStatus(ev, e, ClosureResult(ev[e].work))
          /\ launches' = launches \o ClosureLaunches(ev[e].work)
          /\ running' = running \ {e}
    /\ WorkerAdvance
    /\ UNCHANGED <<pending, sent, lock, queued, hostv, recvd, calllog, kvars, objv>>

\* the second loop: for e in new_events { e.wait(); }
WorkerWaitBatch ==
    /\ wpc = "wait"
    /\ Resolved(ev[Batch[wi]].status)
    /\ ev' = EventWait(ev, Batch[wi])
    /\ IF wi < Len(Batch)
       THEN wi' = wi + 1 /\ UNCHANGED wpc
       ELSE wi' = 1 /\ wpc' = "recv"
    /\ UNCHANGED <<pending, sent, lock, queued, hostv, recvd, wj, running,
                   calllog, launches, kvars, objv>>

Worker ==
    \/ WorkerRecv
    \/ WorkerWaitDep
    \/ WorkerCall
    \/ WorkerCallDone
    \/ WorkerWaitBatch

\* ---- Drop for Queue
\* Drop for Queue runs when the last reference goes, so no call on the
\* queue is in progress: flush(true) sends what is pending and, when the
\* batch is not empty, waits for its last event; a drop with nothing
\* pending ends at once and the Sender is dropped with the Queue
QueueDrop(t) ==
    /\ chan = "open"
    /\ \A u \in Threads : pc[u] = "idle"
    /\ lock = NoThread
    /\ sent' = Append(sent, DrainBatch(pending))
    /\ pending' = DrainRest(pending)
    /\ IF pending # <<>>
       THEN /\ pc' = [pc EXCEPT ![t] = "drop_wait"]
            /\ targ' = [targ EXCEPT ![t] = FlushLast(pending)]
            /\ tbatch' = [tbatch EXCEPT ![t] = Len(sent) + 1]
            /\ lock' = t
            /\ UNCHANGED chan
       ELSE /\ chan' = "closed"
            /\ UNCHANGED <<pc, targ, tbatch, lock>>
    /\ UNCHANGED <<ev, queued, workerv, kvars, clone, cvalues, mems, mret,
                   ovl, ctx, prog, pret>>

\* the wait of the drop's flush returns; the fields are dropped, chan_in
\* among them
QueueDropReturn(t) ==
    /\ pc[t] = "drop_wait"
    /\ Resolved(ev[targ[t]].status)
    /\ ev' = EventWait(ev, targ[t])
    /\ pc' = [pc EXCEPT ![t] = "idle"]
    /\ targ' = [targ EXCEPT ![t] = 0]
    /\ tbatch' = [tbatch EXCEPT ![t] = 0]
    /\ lock' = NoThread
    /\ chan' = "closed"
    /\ UNCHANGED <<pending, sent, queued, workerv, kvars, clone, cvalues,
                   mems, mret, ovl, ctx, prog, pret>>

\* rx_t.recv() fails once the Sender is gone and the channel is empty:
\* if r.is_err() { break; }
WorkerExit ==
    /\ wpc = "recv"
    /\ recvd = Len(sent)
    /\ chan = "closed"
    /\ wpc' = "exit"
    /\ UNCHANGED <<ev, pending, sent, lock, queued, hostv, recvd, wi, wj,
                   running, calllog, launches, kvars, objv>>

\* ----------------------------------------------------------- user events
\* clCreateUserEvent
CreateUserEvent(t) ==
    /\ pc[t] = "idle"
    /\ Len(ev) < MaxEvents
    /\ ev' = Append(ev, EventNewUser)
    /\ UNCHANGED <<pending, sent, lock, queued, hostv, workerv, kvars, objv>>

\* clSetUserEventStatus: once per user event, complete or a negative code
SetUserEventStatus(t) ==
    \E e \in 1..Len(ev), s \in UserStatuses :
        /\ pc[t] = "idle"
        /\ ev[e].kind = "user"
        /\ ev[e].status = CL_SUBMITTED
        /\ ev' = EventSetStatus(ev, e, s)
        /\ UNCHANGED <<pending, sent, lock, queued, hostv, workerv, kvars, objv>>

\* ------------------------------------------------------------ api/kernel
\* what arg_value may point to: nothing, or memory holding these bytes, which
\* read as a cl_mem handle is null, a live memory object or not an object
ArgBytes == {<<1, 2>>, <<2, 1>>}
ArgHandles == {"null", "bad"} \cup MemHandles
NullPtr == [null |-> TRUE, bytes |-> <<>>, handle |-> "null"]
ArgValues ==
    {NullPtr} \cup
    {[null |-> FALSE, bytes |-> b, handle |-> h] : b \in ArgBytes, h \in ArgHandles}
ArgSizes == {0, 1, 2, 8}

\* set_kernel_arg, the size check
ArgSizeOk_LocalOnly(arg, arg_size) ==
    arg.kind = "MemLocal" => arg_size # 0
ArgSizeOk(arg, arg_size) ==
    IF arg.kind = "MemLocal" THEN arg_size # 0 ELSE arg.size = arg_size

\* set_kernel_arg, the value check
ArgValueOk(arg, arg_value) ==
    CASE arg.kind = "MemLocal" -> arg_value.null
      [] arg.kind \in {"Constant", "Sampler"} -> ~arg_value.null
      [] OTHER -> TRUE

\* set_kernel_arg, "let's create the arg now": the value, or the error of a
\* handle that is no live object
ArgCreate(arg, arg_size, arg_value) ==
    IF arg.dead THEN [t |-> "None"]
    ELSE CASE arg.kind = "Constant" ->
                [t |-> "Constant", bytes |-> SubSeq(arg_value.bytes, 1, arg_size)]
           [] arg.kind \in {"MemConstant", "MemGlobal"} ->
                IF arg_value.null \/ arg_value.handle = "null"
                THEN [t |-> "None"]
                ELSE IF arg_value.handle = "bad"
                     THEN [t |-> "Err", rc |-> "CL_INVALID_MEM_OBJECT"]
                     ELSE [t |-> "MemObject", mem |-> arg_value.handle]
           [] arg.kind = "MemLocal" -> [t |-> "LocalMem", size |-> arg_size]
           [] arg.kind = "Sampler" ->
                IF arg_value.handle = "bad"
                THEN [t |-> "Err", rc |-> "CL_INVALID_SAMPLER"]
                ELSE [t |-> "Sampler", sampler |-> arg_value.handle]

\* set_kernel_arg: its return code
SetKernelArgResult(k, arg_index, arg_size, arg_value) ==
    IF arg_index >= Len(k.args) THEN "CL_INVALID_ARG_INDEX"
    ELSE LET arg == k.args[arg_index + 1]
         IN IF ~ArgSizeOk(arg, arg_size) THEN "CL_INVALID_ARG_SIZE"
            ELSE IF ~ArgValueOk(arg, arg_value) THEN "CL_INVALID_ARG_VALUE"
            ELSE IF ArgCreate(arg, arg_size, arg_value).t = "Err"
                 THEN ArgCreate(arg, arg_size, arg_value).rc
                 ELSE "CL_SUCCESS"

\* set_kernel_arg: the cells after the call
SetKernelArgValues(k, vals, arg_index, arg_size, arg_value) ==
    IF SetKernelArgResult(k, arg_index, arg_size, arg_value) = "CL_SUCCESS"
    THEN [vals EXCEPT ![arg_index + 1] =
              ArgCreate(k.args[arg_index + 1], arg_size, arg_value)]
    ELSE vals

SetKernelArg ==
    \E arg_index \in 0..Len(kern.args), arg_size \in ArgSizes,
       arg_value \in ArgValues :
        /\ values' = SetKernelArgValues(kern, values, arg_index, arg_size, arg_value)
        /\ kret' = SetKernelArgResult(kern, arg_index, arg_size, arg_value)
        /\ UNCHANGED <<kern, ev, pending, sent, lock, queued, hostv, workerv, objv>>

\* a work-size array argument: a null pointer, or the caller's array
NullArr == [null |-> TRUE, a |-> <<>>]
Arr(a) == [null |-> FALSE, a |-> a]

ZERO_ARR == <<0, 0, 0>>
\* checked_kernel_work_arr
CheckedKernelWorkArr(arr, work_dim) ==
    IF ~arr.null THEN SubSeq(arr.a, 1, work_dim) ELSE ZERO_ARR

\* Iterator::gt: lexicographic comparison of the two sequences
RECURSIVE IterGt(_, _)
IterGt(a, b) ==
    IF a = <<>> THEN FALSE
    ELSE IF b = <<>> THEN TRUE
    ELSE IF Head(a) # Head(b) THEN Head(a) > Head(b)
    ELSE IterGt(Tail(a), Tail(b))

\* global_work_size.contains(&0)
ContainsZero_First(a) == a[1] = 0
ContainsZero(a) == \E i \in 1..Len(a) : a[i] = 0

\* the global size and offset range checks of enqueue_ndrange_kernel apply
\* to devices with 32 address bits only
AddrCheck(gws, gwo) ==
    IF DevAddressBits # 32 THEN "CL_SUCCESS" ELSE "CL_INVALID_GLOBAL_WORK_SIZE"

\* enqueue_ndrange_kernel: the validation, in the order of the code
NDRangeResult(k, vals, req) ==
    IF \E i \in 1..Len(vals) : vals[i] = Unset THEN "CL_INVALID_KERNEL_ARGS"
    ELSE IF req.work_dim = 0 \/ req.work_dim > DevMaxGridDimensions
    THEN "CL_INVALID_WORK_DIMENSION"
    ELSE LET gws == CheckedKernelWorkArr(req.gws, req.work_dim)
             lws == CheckedKernelWorkArr(req.lws, req.work_dim)
             gwo == CheckedKernelWorkArr(req.gwo, req.work_dim)
         IN IF AddrCheck(gws, gwo) # "CL_SUCCESS" THEN AddrCheck(gws, gwo)
            ELSE IF IterGt(lws, DevMaxBlockSizes) THEN "CL_INVALID_WORK_ITEM_SIZE"
            ELSE "CL_SUCCESS"

\* enqueue_ndrange_kernel: the closure of the event
NDRangeClosure(k, vals, req) ==
    LET gws == CheckedKernelWorkArr(req.gws, req.work_dim)
        lws == CheckedKernelWorkArr(req.lws, req.work_dim)
        gwo == CheckedKernelWorkArr(req.gwo, req.work_dim)
    IN IF ContainsZero(gws)
       THEN [k |-> "ret", r |-> CL_COMPLETE]
       ELSE Launch(k, vals, req.work_dim, lws, gws, gwo)

\* the launch requests tried
NDRequests ==
    { [work_dim |-> 1, gws |-> Arr(<<4>>), lws |-> NullArr, gwo |-> NullArr],
      [work_dim |-> 1, gws |-> NullArr, lws |-> NullArr, gwo |-> NullArr],
      [work_dim |-> 2, gws |-> Arr(<<4, 0>>), lws |-> NullArr, gwo |-> NullArr],
      [work_dim |-> 2, gws |-> Arr(<<0, 2>>), lws |-> Arr(<<1, 1>>), gwo |-> NullArr],
      [work_dim |-> 1, gws |-> Arr(<<2, 0>>), lws |-> Arr(<<2, 0>>), gwo |-> Arr(<<1, 0>>)],
      [work_dim |-> 1, gws |-> Arr(<<8>>), lws |-> Arr(<<8>>), gwo |-> NullArr],
      [work_dim |-> 0, gws |-> Arr(<<4>>), lws |-> NullArr, gwo |-> NullArr],
      [work_dim |-> 4, gws |-> Arr(<<4, 4, 4, 4>>), lws |-> NullArr, gwo |-> NullArr] }

\* enqueue_ndrange_kernel on a request among reqs
EnqueueNDRange(t, reqs) ==
    \E req \in reqs, deps \in DepLists(Len(ev)) :
        LET rc == NDRangeResult(kern, values, req)
            cb == NDRangeClosure(kern, values, req)
        IN /\ pc[t] = "idle"
           /\ kret' = rc
           /\ IF rc = "CL_SUCCESS"
              THEN /\ cb.k = "launch" =>
                        /\ ~cb.panic
                        /\ Cardinality({e \in 1..Len(ev) : ev[e].work.k = "launch"})
                               < MaxLaunches
                   /\ EventCreate(t, EventNew(deps, cb))
              ELSE UNCHANGED <<ev, hostv>>
           /\ UNCHANGED <<kern, values, pending, sent, lock, queued, workerv, objv>>

EnqueueNDRangeKernel(t) == EnqueueNDRange(t, NDRequests)

\* launch requests over one to three dimensions: global sizes that are and
\* are not multiples of the device's block size, local sizes absent, zero
\* or given, offsets absent or given
WorkArrs(d, vals) == {Arr(a) : a \in [1..d -> vals]}
GlobalArrs(d) == {Arr([i \in 1..d |-> IF i = 1 THEN g ELSE 6]) : g \in {4, 6}}
LaunchRequests ==
    UNION {[work_dim : {d}, gws : GlobalArrs(d),
            lws : WorkArrs(d, {0, 2}) \cup {NullArr},
            gwo : WorkArrs(d, {1}) \cup {NullArr}] : d \in 1..3}

EnqueueNDRangeAny(t) == EnqueueNDRange(t, LaunchRequests)

\* launch requests whose local sizes are below, at and above the device's
\* maximum block size in each dimension, and do or do not divide the global
\* size
WorkItemRequests ==
    UNION {[work_dim : {d}, gws : {Arr([i \in 1..d |-> g]) : g \in {6, 8}},
            lws : WorkArrs(d, {1, 4, 8}),
            gwo : WorkArrs(d, {1}) \cup {NullArr}] : d \in 1..3}

EnqueueNDRangeSized(t) == EnqueueNDRange(t, WorkItemRequests)

\* ----------------------------------------------------------- Kernel::clone
\* values: self.values.clone(): the clone gets a cell vector of its own (the
\* original's is vector 1), holding copies of the cells
KernelCloneVec_Shared(v) == v
KernelCloneVec(v) == v + 1

\* the cells the clone's set_kernel_arg and launch see
CloneValues == IF clone = 1 THEN values ELSE cvalues

CloneKernel ==
    /\ clone = 0
    /\ clone' = KernelCloneVec(1)
    /\ cvalues' = IF clone' = 1 THEN cvalues ELSE values
    /\ UNCHANGED <<ev, pending, sent, lock, queued, hostv, workerv, kvars,
                   mems, mret, ovl, ctx, otherv>>

\* set_kernel_arg on the clone
SetKernelArgClone ==
    \E arg_index \in 0..Len(kern.args), arg_size \in ArgSizes,
       arg_value \in ArgValues :
        LET vals == SetKernelArgValues(kern, CloneValues, arg_index, arg_size,
                                       arg_value)
        IN /\ clone # 0
           /\ IF clone = 1
              THEN values' = vals /\ UNCHANGED cvalues
              ELSE cvalues' = vals /\ UNCHANGED values
           /\ kret' = SetKernelArgResult(kern, arg_index, arg_size, arg_value)
           /\ UNCHANGED <<kern, clone, ev, pending, sent, lock, queued, hostv,
                          workerv, mems, mret, ovl, ctx, otherv>>

\* ------------------------------------------------------------- api/memory
\* a cl_mem_flags word is the set of its bits; & is intersection, | union
READ_WRITE == "CL_MEM_READ_WRITE"
WRITE_ONLY == "CL_MEM_WRITE_ONLY"
READ_ONLY == "CL_MEM_READ_ONLY"
USE_HOST_PTR == "CL_MEM_USE_HOST_PTR"
ALLOC_HOST_PTR == "CL_MEM_ALLOC_HOST_PTR"
COPY_HOST_PTR == "CL_MEM_COPY_HOST_PTR"
HOST_WRITE_ONLY == "CL_MEM_HOST_WRITE_ONLY"
HOST_READ_ONLY == "CL_MEM_HOST_READ_ONLY"
HOST_NO_ACCESS == "CL_MEM_HOST_NO_ACCESS"
KERNEL_READ_AND_WRITE == "CL_MEM_KERNEL_READ_AND_WRITE"
SVM_FINE_GRAIN_BUFFER == "CL_MEM_SVM_FINE_GRAIN_BUFFER"

MemFlagBits ==
    {READ_WRITE, WRITE_ONLY, READ_ONLY, USE_HOST_PTR, ALLOC_HOST_PTR,
     COPY_HOST_PTR, HOST_WRITE_ONLY, HOST_READ_ONLY, HOST_NO_ACCESS,
     KERNEL_READ_AND_WRITE, SVM_FINE_GRAIN_BUFFER}

\* the flag words the calls are tried with: no bit, every single bit, every
\* pair of one group, and words with bits of several groups
MemFlagWords ==
    {w \in SUBSET MemFlagBits : Cardinality(w) <= 1}
    \cup {w \in SUBSET {READ_WRITE, WRITE_ONLY, READ_ONLY} : Cardinality(w) = 2}
    \cup {w \in SUBSET {USE_HOST_PTR, ALLOC_HOST_PTR, COPY_HOST_PTR} :
              Cardinality(w) = 2}
    \cup {w \in SUBSET {HOST_WRITE_ONLY, HOST_READ_ONLY, HOST_NO_ACCESS} :
              Cardinality(w) = 2}
    \cup {{WRITE_ONLY, HOST_NO_ACCESS}, {READ_ONLY, USE_HOST_PTR},
          {READ_ONLY, HOST_READ_ONLY}, {WRITE_ONLY, KERNEL_READ_AND_WRITE},
          {READ_ONLY, COPY_HOST_PTR, HOST_READ_ONLY},
          {WRITE_ONLY, ALLOC_HOST_PTR, COPY_HOST_PTR}}

\* usize values near 0 and near 2^64: n >= 0 stands for n, n < 0 for 2^64 + n
\* a + b in usize arithmetic overflows
WordOverflows(a, b) == (a < 0 /\ b < 0) \/ ((a < 0 \/ b < 0) /\ a + b >= 0)
\* the wrapped sum
WordAdd(a, b) == a + b
\* a > b as unsigned words
WordGt(a, b) == IF (a < 0) = (b < 0) THEN a > b ELSE a < 0

\* util.rs bit_check: some bit of b is set in a
BitCheck(a, b) == a \cap b # {}

\* validate_mem_flags
ValidateMemFlags_OneHostPtrGroup(flags, images) ==
    LET valid_flags ==
            {READ_WRITE, WRITE_ONLY, READ_ONLY, KERNEL_READ_AND_WRITE}
            \cup (IF ~images
                  THEN {USE_HOST_PTR, ALLOC_HOST_PTR, COPY_HOST_PTR,
                        HOST_WRITE_ONLY, HOST_READ_ONLY, HOST_NO_ACCESS}
                  ELSE {})
    IN IF \/ flags \ valid_flags # {}
          \/ Cardinality(flags \cap {READ_WRITE, WRITE_ONLY, READ_ONLY}) > 1
          \/ Cardinality(flags \cap {ALLOC_HOST_PTR, USE_HOST_PTR,
                                     COPY_HOST_PTR}) > 1
          \/ Cardinality(flags \cap {HOST_WRITE_ONLY, HOST_READ_ONLY,
                                     HOST_NO_ACCESS}) > 1
       THEN "CL_INVALID_VALUE"
       ELSE "CL_SUCCESS"
ValidateMemFlags(flags, images) ==
    LET valid_flags ==
            {READ_WRITE, WRITE_ONLY, READ_ONLY, KERNEL_READ_AND_WRITE}
            \cup (IF ~images
                  THEN {USE_HOST_PTR, ALLOC_HOST_PTR, COPY_HOST_PTR,
                        HOST_WRITE_ONLY, HOST_READ_ONLY, HOST_NO_ACCESS}
                  ELSE {})
        read_write_group == {READ_WRITE, WRITE_ONLY, READ_ONLY}
        alloc_host_group == {ALLOC_HOST_PTR, USE_HOST_PTR}
        copy_host_group == {COPY_HOST_PTR, USE_HOST_PTR}
        host_read_write_group == {HOST_WRITE_ONLY, HOST_READ_ONLY, HOST_NO_ACCESS}
    IN IF \/ flags \ valid_flags # {}
          \/ Cardinality(flags \cap read_write_group) > 1
          \/ Cardinality(flags \cap alloc_host_group) > 1
          \/ Cardinality(flags \cap copy_host_group) > 1
          \/ Cardinality(flags \cap host_read_write_group) > 1
       THEN "CL_INVALID_VALUE"
       ELSE "CL_SUCCESS"

\* filter_image_access_flags
FilterImageAccessFlags(flags) ==
    flags \cap {READ_WRITE, WRITE_ONLY, READ_ONLY, KERNEL_READ_AND_WRITE}

\* the masks of inherit_mem_flags
InheritReadWriteMask == {READ_WRITE, WRITE_ONLY, READ_ONLY, KERNEL_READ_AND_WRITE}
InheritHostPtrMask == {USE_HOST_PTR, ALLOC_HOST_PTR, COPY_HOST_PTR}
InheritHostMask == {HOST_WRITE_ONLY, HOST_READ_ONLY, HOST_NO_ACCESS}

\* inherit_mem_flags(flags, mem), memflags being mem.flags
InheritMemFlags_KeepHostPtr(flags, memflags) ==
    LET f1 == IF flags \cap InheritReadWriteMask = {}
              THEN flags \cup (memflags \cap InheritReadWriteMask) ELSE flags
        f2 == f1 \cup (memflags \cap InheritHostPtrMask)
    IN IF f2 \cap InheritHostMask = {}
       THEN f2 \cup (memflags \cap InheritHostMask) ELSE f2
InheritMemFlags(flags, memflags) ==
    LET f1 == IF flags \cap InheritReadWriteMask = {}
              THEN flags \cup (memflags \cap InheritReadWriteMask) ELSE flags
        f2 == (f1 \ InheritHostPtrMask) \cup (memflags \cap InheritHostPtrMask)
    IN IF f2 \cap InheritHostMask = {}
       THEN f2 \cup (memflags \cap InheritHostMask) ELSE f2

\* validate_host_ptr
ValidateHostPtr(host_null, flags) ==
    IF host_null /\ BitCheck(flags, {USE_HOST_PTR, COPY_HOST_PTR})
    THEN "CL_INVALID_HOST_PTR"
    ELSE IF ~host_null /\ ~BitCheck(flags, {USE_HOST_PTR, COPY_HOST_PTR})
    THEN "CL_INVALID_HOST_PTR"
    ELSE "CL_SUCCESS"

\* validate_matching_buffer_flags(mem, flags), memflags being mem.flags
ValidateMatchingBufferFlags_NoHostNoAccess(memflags, flags) ==
    IF \/ BitCheck(memflags, {WRITE_ONLY}) /\ BitCheck(flags, {READ_WRITE, READ_ONLY})
       \/ BitCheck(memflags, {READ_ONLY}) /\ BitCheck(flags, {READ_WRITE, WRITE_ONLY})
       \/ BitCheck(flags, {USE_HOST_PTR, ALLOC_HOST_PTR, COPY_HOST_PTR})
       \/ BitCheck(memflags, {HOST_WRITE_ONLY}) /\ BitCheck(flags, {HOST_READ_ONLY})
       \/ BitCheck(memflags, {HOST_READ_ONLY}) /\ BitCheck(flags, {HOST_WRITE_ONLY})
    THEN "CL_INVALID_VALUE"
    ELSE "CL_SUCCESS"
ValidateMatchingBufferFlags(memflags, flags) ==
    IF \/ BitCheck(memflags, {WRITE_ONLY}) /\ BitCheck(flags, {READ_WRITE, READ_ONLY})
       \/ BitCheck(memflags, {READ_ONLY}) /\ BitCheck(flags, {READ_WRITE, WRITE_ONLY})
       \/ BitCheck(flags, {USE_HOST_PTR, ALLOC_HOST_PTR, COPY_HOST_PTR})
       \/ BitCheck(memflags, {HOST_WRITE_ONLY}) /\ BitCheck(flags, {HOST_READ_ONLY})
       \/ BitCheck(memflags, {HOST_READ_ONLY}) /\ BitCheck(flags, {HOST_WRITE_ONLY})
       \/ BitCheck(memflags, {HOST_NO_ACCESS})
              /\ BitCheck(flags, {HOST_READ_ONLY, HOST_WRITE_ONLY})
    THEN "CL_INVALID_VALUE"
    ELSE "CL_SUCCESS"

\* what the context's devices report (core/device.rs)
DevMaxMemAlloc == 8
DevImageSupported == TRUE
\* the flags every image format of the device supports
DevFormatFlags == {READ_WRITE, WRITE_ONLY, READ_ONLY, KERNEL_READ_AND_WRITE}

\* Context::new: one reference, the caller's, and no destructor callback
ContextNew == [refs |-> 1, dtors |-> <<>>, called |-> <<>>]

\* context.clone(): one more Arc reference, held by a memory object
ContextRetain(c) == [c EXCEPT !.refs = @ + 1]

\* Mem::new_buffer: a root with its own resource table
MemNewBuffer(flags, size) ==
    [mem_type |-> "BUFFER", parent |-> 0, flags |-> flags, size |-> size,
     offset |-> 0, res |-> TRUE, maps |-> {}, cbs |-> <<>>,
     refs |-> 1, called |-> <<>>]

\* Mem::new_sub_buffer: refers to its parent, res: None
MemNewSubBuffer(parent, flags, offset, size) ==
    [mem_type |-> "BUFFER", parent |-> parent, flags |-> flags, size |-> size,
     offset |-> offset, res |-> FALSE, maps |-> {}, cbs |-> <<>>,
     refs |-> 1, called |-> <<>>]

\* Mem::new_image: parent: None, size: 0, res: None
MemNewImage(mem_type, flags) ==
    [mem_type |-> mem_type, parent |-> 0, flags |-> flags, size |-> 0,
     offset |-> 0, res |-> FALSE, maps |-> {}, cbs |-> <<>>,
     refs |-> 1, called |-> <<>>]

\* Mem::get_res: the object whose table is unwrapped, the parent or the
\* object itself; 0 where unwrap() finds None and panics
MemGetRes(ms, m) ==
    LET owner == IF ms[m].parent # 0 THEN ms[m].parent ELSE m
    IN IF ms[owner].res THEN owner ELSE 0

\* create_buffer: its return code; alloc_ok is whether the screen could
\* create the resource
CreateBufferResult(req, alloc_ok) ==
    IF ValidateMemFlags(req.flags, FALSE) # "CL_SUCCESS" THEN "CL_INVALID_VALUE"
    ELSE IF req.size = 0 THEN "CL_INVALID_BUFFER_SIZE"
    ELSE IF WordGt(req.size, DevMaxMemAlloc) THEN "CL_INVALID_BUFFER_SIZE"
    ELSE IF ValidateHostPtr(req.host_null, req.flags) # "CL_SUCCESS"
    THEN "CL_INVALID_HOST_PTR"
    ELSE IF ~alloc_ok THEN "CL_OUT_OF_RESOURCES"
    ELSE "CL_SUCCESS"

BufferRequests ==
    [flags : MemFlagWords, size : {0, 4, 9}, host_null : BOOLEAN]

CreateBuffer ==
    \E req \in BufferRequests, alloc_ok \in BOOLEAN :
        LET rc == CreateBufferResult(req, alloc_ok)
        IN /\ Len(mems) < MaxMems
           /\ mret' = [op |-> "create_buffer", rc |-> rc]
           /\ mems' = IF rc = "CL_SUCCESS"
                      THEN Append(mems, MemNewBuffer(req.flags, req.size))
                      ELSE mems
           /\ ctx' = IF rc = "CL_SUCCESS" THEN ContextRetain(ctx) ELSE ctx
           /\ UNCHANGED <<ev, pending, sent, lock, queued, hostv, workerv,
                          kvars, clone, cvalues, ovl, otherv>>

\* the region argument of create_sub_buffer: a cl_buffer_region, a null
\* buffer_create_info, or a buffer_create_type other than REGION
NullInfo == [t |-> "null"]
BadCreateType == [t |-> "badtype"]
Region(origin, size) == [t |-> "region", origin |-> origin, size |-> size]
SubBufferRegions ==
    {NullInfo, BadCreateType}
    \cup {Region(o, n) : o \in {0, 2, -1}, n \in {0, 2, 3}}

\* the bounds test region.origin + region.size > b.size: the sum that
\* overflows wraps in a release build
RegionOutOfBounds_Exclusive(region, size) ==
    ~WordGt(size, WordAdd(region.origin, region.size))
RegionOutOfBounds(region, size) ==
    WordGt(WordAdd(region.origin, region.size), size)

\* create_sub_buffer: its return code; checks is whether the build has
\* overflow checks, under which an overflowing sum panics
CreateSubBufferResult(ms, req, checks) ==
    IF req.buffer = 0 THEN "CL_INVALID_MEM_OBJECT"
    ELSE LET b == ms[req.buffer]
             flags == InheritMemFlags(req.flags, b.flags)
         IN IF b.parent # 0 THEN "CL_INVALID_MEM_OBJECT"
            ELSE IF ValidateMatchingBufferFlags(b.flags, req.flags) # "CL_SUCCESS"
            THEN "CL_INVALID_VALUE"
            ELSE IF ValidateMemFlags(flags, FALSE) # "CL_SUCCESS"
            THEN "CL_INVALID_VALUE"
            ELSE IF req.region.t = "badtype" THEN "CL_INVALID_VALUE"
            ELSE IF req.region.t = "null" THEN "CL_INVALID_VALUE"
            ELSE IF req.region.size = 0 THEN "CL_INVALID_BUFFER_SIZE"
            ELSE IF checks /\ WordOverflows(req.region.origin, req.region.size)
            THEN "panic"
            ELSE IF RegionOutOfBounds(req.region, b.size) THEN "CL_INVALID_VALUE"
            ELSE "CL_SUCCESS"

\* create_sub_buffer: the object of a call that succeeds
CreateSubBufferMem(ms, req) ==
    MemNewSubBuffer(req.buffer,
                    InheritMemFlags(req.flags, ms[req.buffer].flags),
                    req.region.origin, req.region.size)

SubBufferRequests(n) ==
    [buffer : 0..n, flags : MemFlagWords, region : SubBufferRegions]

CreateSubBuffer ==
    \E req \in SubBufferRequests(Len(mems)), checks \in BOOLEAN :
        LET rc == CreateSubBufferResult(mems, req, checks)
        IN /\ Len(mems) < MaxMems
           /\ mret' = [op |-> "create_sub_buffer", rc |-> rc]
           /\ mems' = IF rc = "CL_SUCCESS"
                      THEN Append([mems EXCEPT ![req.buffer].refs = @ + 1],
                                  CreateSubBufferMem(mems, req))
                      ELSE mems
           /\ ctx' = IF rc = "CL_SUCCESS" THEN ContextRetain(ctx) ELSE ctx
           /\ UNCHANGED <<ev, pending, sent, lock, queued, hostv, workerv,
                          kvars, clone, cvalues, ovl, otherv>>

\* image_width * elem_size of the images tried, in bytes
ImageRowBytes == 4

\* validate_image_desc, for a descriptor with valid sizes: the type of
\* mem_object must fit the image type
ValidateImageDesc(ms, req) ==
    IF req.mem_object # 0
       /\ ~(CASE req.image_type = "IMAGE1D_BUFFER" ->
                     ms[req.mem_object].mem_type = "BUFFER"
              [] req.image_type = "IMAGE2D" ->
                     ms[req.mem_object].mem_type # "BUFFER"
              [] OTHER -> TRUE)
    THEN "CL_INVALID_OPERATION"
    ELSE "CL_SUCCESS"

\* validate_buffer: an error, or the flags after inheritance
ValidateBuffer(ms, req) ==
    IF req.mem_object # 0
    THEN LET mem == ms[req.mem_object]
         IN IF mem.mem_type = "BUFFER" /\ req.image_type # "IMAGE1D_BUFFER"
            THEN [rc |-> "CL_INVALID_IMAGE_DESCRIPTOR"]
            ELSE IF mem.mem_type = "BUFFER" /\ WordGt(ImageRowBytes, mem.size)
            THEN [rc |-> "CL_INVALID_IMAGE_DESCRIPTOR"]
            ELSE IF mem.mem_type \notin {"BUFFER", "IMAGE2D"}
            THEN [rc |-> "CL_INVALID_IMAGE_DESCRIPTOR"]
            ELSE IF ValidateMatchingBufferFlags(mem.flags, req.flags) # "CL_SUCCESS"
            THEN [rc |-> "CL_INVALID_VALUE"]
            ELSE [rc |-> "CL_SUCCESS",
                  flags |-> InheritMemFlags(req.flags, mem.flags)]
    ELSE IF req.image_type = "IMAGE1D_BUFFER"
    THEN [rc |-> "CL_INVALID_IMAGE_DESCRIPTOR"]
    ELSE [rc |-> "CL_SUCCESS", flags |-> req.flags]

\* create_image: the flags it validates and stores
CreateImageFlags(ms, req) ==
    LET flags == ValidateBuffer(ms, req).flags
    IN IF flags = {} /\ req.image_type # "IMAGE1D_BUFFER"
       THEN {READ_WRITE} ELSE flags

\* create_image: its return code, for a valid format and descriptor sizes
CreateImageResult_ImagesOnly(ms, req) ==
    IF ~DevImageSupported THEN "CL_INVALID_OPERATION"
    ELSE IF ValidateImageDesc(ms, req) # "CL_SUCCESS"
    THEN ValidateImageDesc(ms, req)
    ELSE IF ValidateBuffer(ms, req).rc # "CL_SUCCESS"
    THEN ValidateBuffer(ms, req).rc
    ELSE LET flags == CreateImageFlags(ms, req)
         IN IF ValidateMemFlags(flags, TRUE) # "CL_SUCCESS"
            THEN "CL_INVALID_VALUE"
            ELSE IF ValidateHostPtr(req.host_null, flags) # "CL_SUCCESS"
            THEN "CL_INVALID_HOST_PTR"
            ELSE IF ~(FilterImageAccessFlags(flags) \subseteq DevFormatFlags)
            THEN "CL_IMAGE_FORMAT_NOT_SUPPORTED"
            ELSE "CL_SUCCESS"
CreateImageResult(ms, req) ==
    IF ~DevImageSupported THEN "CL_INVALID_OPERATION"
    ELSE IF ValidateImageDesc(ms, req) # "CL_SUCCESS"
    THEN ValidateImageDesc(ms, req)
    ELSE IF ValidateBuffer(ms, req).rc # "CL_SUCCESS"
    THEN ValidateBuffer(ms, req).rc
    ELSE LET flags == CreateImageFlags(ms, req)
         IN IF ValidateMemFlags(flags, FALSE) # "CL_SUCCESS"
            THEN "CL_INVALID_VALUE"
            ELSE IF ValidateHostPtr(req.host_null, flags) # "CL_SUCCESS"
            THEN "CL_INVALID_HOST_PTR"
            ELSE IF ~(FilterImageAccessFlags(flags) \subseteq DevFormatFlags)
            THEN "CL_IMAGE_FORMAT_NOT_SUPPORTED"
            ELSE "CL_SUCCESS"

ImageRequests(n) ==
    [flags : MemFlagWords, host_null : BOOLEAN,
     image_type : {"IMAGE2D", "IMAGE1D_BUFFER"}, mem_object : 0..n]

CreateImage ==
    \E req \in ImageRequests(Len(mems)) :
        LET rc == CreateImageResult(mems, req)
        IN /\ Len(mems) < MaxMems
           /\ mret' = [op |-> "create_image", rc |-> rc]
           /\ mems' = IF rc = "CL_SUCCESS"
                      THEN Append(mems, MemNewImage(req.image_type,
                                                    CreateImageFlags(mems, req)))
                      ELSE mems
           /\ ctx' = IF rc = "CL_SUCCESS" THEN ContextRetain(ctx) ELSE ctx
           /\ UNCHANGED <<ev, pending, sent, lock, queued, hostv, workerv,
                          kvars, clone, cvalues, ovl, otherv>>

\* get_supported_image_formats, for a valid image type and output arguments
GetSupportedImageFormats ==
    \E flags \in MemFlagWords :
        /\ mret' = [op |-> "get_supported_image_formats",
                    rc |-> ValidateMemFlags(flags, TRUE)]
        /\ UNCHANGED <<ev, pending, sent, lock, queued, hostv, workerv,
                       kvars, clone, cvalues, mems, ovl, ctx, otherv>>

\* ------------------------------------------------------ map and unmap
\* the addresses the backend's buffer_map may return
MapAddrs == {"p1", "p2"}
\* a pointer no map call returned
StrayPtr == "p0"

\* Mem::map after buffer_map returned ptr: maps.insert(ptr, tx)
MemMapInsert(maps, ptr) == maps \cup {ptr}

\* Mem::unmap: maps.remove(&ptr).is_some(), and the table it leaves
MemUnmap_Keep(maps, ptr) == [ret |-> ptr \in maps, maps |-> maps]
MemUnmap(maps, ptr) == [ret |-> ptr \in maps, maps |-> maps \ {ptr}]

\* cl_map_flags
MapFlagWords ==
    {{"CL_MAP_READ"}, {"CL_MAP_WRITE"}, {"CL_MAP_WRITE_INVALIDATE_REGION"},
     {"CL_MAP_READ", "CL_MAP_WRITE_INVALIDATE_REGION"}, {"CL_MAP_BAD"}}

\* enqueue_map_buffer up to its flush: the error it returns, or CL_SUCCESS;
\* events is whether a wait list or an event pointer was passed
EnqueueMapBufferResult(ms, req) ==
    LET b == ms[req.buffer]
    IN IF WordGt(WordAdd(req.offset, req.size), b.size) \/ req.size = 0
       THEN "CL_INVALID_VALUE"
       ELSE IF \/ req.map_flags \ {"CL_MAP_READ", "CL_MAP_WRITE",
                                   "CL_MAP_WRITE_INVALIDATE_REGION"} # {}
               \/ /\ BitCheck(req.map_flags, {"CL_MAP_READ", "CL_MAP_WRITE"})
                  /\ BitCheck(req.map_flags, {"CL_MAP_WRITE_INVALIDATE_REGION"})
       THEN "CL_INVALID_VALUE"
       ELSE IF \/ /\ BitCheck(b.flags, {HOST_WRITE_ONLY, HOST_NO_ACCESS})
                  /\ BitCheck(req.map_flags, {"CL_MAP_READ"})
               \/ /\ BitCheck(b.flags, {HOST_READ_ONLY, HOST_NO_ACCESS})
                  /\ BitCheck(req.map_flags, {"CL_MAP_WRITE",
                                              "CL_MAP_WRITE_INVALIDATE_REGION"})
       THEN "CL_INVALID_OPERATION"
       ELSE IF ~req.block \/ req.events THEN "CL_MAP_FAILURE"
       ELSE "CL_SUCCESS"

MapRequests(n) ==
    [buffer : 1..n, block : BOOLEAN, events : BOOLEAN,
     map_flags : MapFlagWords, offset : {0, 2, -1}, size : {0, 2, 3}]

\* enqueue_map_buffer up to the buffer_map call inside Mem::map: an error
\* returns at once; otherwise the call flushes the queue, unwraps the
\* object's own resource table and converts offset and size for the backend,
\* which hands back an address
EnqueueMapBuffer(t) ==
    \E req \in MapRequests(Len(mems)), ptr \in MapAddrs :
        LET rc == EnqueueMapBufferResult(mems, req)
            panics == \/ ~mems[req.buffer].res
                      \/ req.offset < 0
        IN /\ pc[t] = "idle"
           /\ IF rc # "CL_SUCCESS"
              THEN /\ mret' = [op |-> "map", rc |-> rc]
                   /\ UNCHANGED <<sent, hostv>>
              ELSE /\ lock = NoThread
                   /\ Len(sent) < MaxBatches
                   /\ sent' = Append(sent, DrainBatch(pending))
                   /\ IF panics
                      THEN /\ mret' = [op |-> "map", rc |-> "panic"]
                           /\ UNCHANGED hostv
                      ELSE /\ pc' = [pc EXCEPT ![t] = "map"]
                           /\ targ' = [targ EXCEPT
                                           ![t] = [mem |-> req.buffer, ptr |-> ptr]]
                           /\ UNCHANGED <<mret, tbatch>>
           /\ UNCHANGED <<ev, pending, lock, queued, workerv, kvars, clone,
                          cvalues, mems, ovl, ctx, otherv>>

\* Mem::map, the insert under the maps mutex, and the return of the address
MapInsert(t) ==
    /\ pc[t] = "map"
    /\ mems' = [mems EXCEPT ![targ[t].mem].maps = MemMapInsert(@, targ[t].ptr)]
    /\ mret' = [op |-> "map", rc |-> "CL_SUCCESS", mem |-> targ[t].mem,
                ptr |-> targ[t].ptr]
    /\ pc' = [pc EXCEPT ![t] = "idle"]
    /\ targ' = [targ EXCEPT ![t] = 0]
    /\ UNCHANGED <<ev, pending, sent, lock, queued, tbatch, workerv, kvars,
                   clone, cvalues, ovl, ctx, otherv>>

\* enqueue_unmap_mem_object on an object of the queue's context; events is
\* whether a wait list or an event pointer was passed
EnqueueUnmapResult(ms, req) ==
    IF ~MemUnmap(ms[req.memobj].maps, req.mapped_ptr).ret
    THEN "CL_INVALID_VALUE"
    ELSE IF req.events THEN "CL_OUT_OF_HOST_MEMORY"
    ELSE "CL_SUCCESS"

UnmapRequests(n) ==
    [memobj : 1..n, mapped_ptr : MapAddrs \cup {StrayPtr}, events : BOOLEAN]

EnqueueUnmapMemObject(t) ==
    \E req \in UnmapRequests(Len(mems)) :
        /\ pc[t] = "idle"
        /\ mems' = [mems EXCEPT ![req.memobj].maps =
                                    MemUnmap(@, req.mapped_ptr).maps]
        /\ mret' = [op |-> "unmap", rc |-> EnqueueUnmapResult(mems, req),
                    mem |-> req.memobj, ptr |-> req.mapped_ptr,
                    events |-> req.events]
        /\ UNCHANGED <<ev, pending, sent, lock, queued, hostv, workerv, kvars,
                       clone, cvalues, ovl, ctx, otherv>>

\* ------------------------------------------------ destructor callbacks
\* the functions an application registers; a null pfn_notify is "null"
Callbacks == {"f", "g"}
NullCallback == "null"

\* Drop for Mem: cbs.iter().rev().for_each(|cb| cb(cl)), the calls in order
MemDrop_Forward(cbs) == cbs
MemDrop(cbs) == Reverse(cbs)

\* Drop for Context: dtors.iter().rev().for_each(|cb| cb(cl))
ContextDrop(dtors) == Reverse(dtors)

\* the memory objects alive: some reference to them is left
LiveMems(ms) == {i \in 1..Len(ms) : ms[i].refs > 0}

\* the references the application holds on a memory object: all but the
\* one each live sub-buffer keeps in its parent field
MemUserRefs(ms, m) ==
    ms[m].refs - Cardinality({i \in LiveMems(ms) : ms[i].parent = m})

\* the references the application holds on the context: all but the one
\* each live memory object keeps in its context field
ContextUserRefs(ms, c) == c.refs - Cardinality(LiveMems(ms))

\* an Arc<Context> is dropped: the last one runs Drop for Context
ArcDropContext(c) ==
    LET c1 == [c EXCEPT !.refs = @ - 1]
    IN IF c1.refs > 0 THEN c1
       ELSE [c1 EXCEPT !.called = @ \o ContextDrop(c1.dtors)]

\* an Arc<Mem> is dropped: the last one runs Drop for Mem, then drops the
\* fields in declaration order, context before parent
RECURSIVE ArcDropMem(_, _, _)
ArcDropMem(ms, c, m) ==
    LET ms1 == [ms EXCEPT ![m].refs = @ - 1]
        ms2 == [ms1 EXCEPT ![m].called = @ \o MemDrop(ms1[m].cbs)]
        c2 == ArcDropContext(c)
    IN IF ms1[m].refs > 0 THEN [mems |-> ms1, ctx |-> c]
       ELSE IF ms[m].parent = 0 THEN [mems |-> ms2, ctx |-> c2]
       ELSE ArcDropMem(ms2, c2, ms[m].parent)

\* set_mem_object_destructor_callback: a null pfn_notify is refused, any
\* other is pushed on cbs
SetMemObjectDestructorCallback ==
    \E m \in 1..Len(mems), pfn \in Callbacks \cup {NullCallback} :
        /\ MemUserRefs(mems, m) > 0
        /\ Len(mems[m].cbs) < MaxCallbacks
        /\ IF pfn = NullCallback
           THEN /\ mret' = [op |-> "set_mem_cb", rc |-> "CL_INVALID_VALUE"]
                /\ UNCHANGED mems
           ELSE /\ mret' = [op |-> "set_mem_cb", rc |-> "CL_SUCCESS"]
                /\ mems' = [mems EXCEPT ![m].cbs = Append(@, pfn)]
        /\ UNCHANGED <<ev, pending, sent, lock, queued, hostv, workerv, kvars,
                       clone, cvalues, ovl, ctx, otherv>>

\* set_context_destructor_callback: the same on the context's dtors
SetContextDestructorCallback ==
    \E pfn \in Callbacks \cup {NullCallback} :
        /\ ContextUserRefs(mems, ctx) > 0
        /\ Len(ctx.dtors) < MaxCallbacks
        /\ IF pfn = NullCallback
           THEN /\ mret' = [op |-> "set_context_cb", rc |-> "CL_INVALID_VALUE"]
                /\ UNCHANGED ctx
           ELSE /\ mret' = [op |-> "set_context_cb", rc |-> "CL_SUCCESS"]
                /\ ctx' = [ctx EXCEPT !.dtors = Append(@, pfn)]
        /\ UNCHANGED <<ev, pending, sent, lock, queued, hostv, workerv, kvars,
                       clone, cvalues, ovl, mems, otherv>>

\* retain_mem_object: one more reference for the application
RetainMemObject ==
    \E m \in 1..Len(mems) :
        /\ MemUserRefs(mems, m) \in 1..(MaxRefs - 1)
        /\ mems' = [mems EXCEPT ![m].refs = @ + 1]
        /\ mret' = [op |-> "retain_mem", rc |-> "CL_SUCCESS"]
        /\ UNCHANGED <<ev, pending, sent, lock, queued, hostv, workerv, kvars,
                       clone, cvalues, ovl, ctx, otherv>>

\* release_mem_object: the application gives one reference back
ReleaseMemObject ==
    \E m \in 1..Len(mems) :
        /\ MemUserRefs(mems, m) > 0
        /\ mems' = ArcDropMem(mems, ctx, m).mems
        /\ ctx' = ArcDropMem(mems, ctx, m).ctx
        /\ mret' = [op |-> "release_mem", rc |-> "CL_SUCCESS"]
        /\ UNCHANGED <<ev, pending, sent, lock, queued, hostv, workerv, kvars,
                       clone, cvalues, ovl, otherv>>

\* retain_context
RetainContext ==
    /\ ContextUserRefs(mems, ctx) \in 1..(MaxRefs - 1)
    /\ ctx' = ContextRetain(ctx)
    /\ mret' = [op |-> "retain_context", rc |-> "CL_SUCCESS"]
    /\ UNCHANGED <<ev, pending, sent, lock, queued, hostv, workerv, kvars,
                   clone, cvalues, ovl, mems, otherv>>

\* release_context
ReleaseContext ==
    /\ ContextUserRefs(mems, ctx) > 0
    /\ ctx' = ArcDropContext(ctx)
    /\ mret' = [op |-> "release_context", rc |-> "CL_SUCCESS"]
    /\ UNCHANGED <<ev, pending, sent, lock, queued, hostv, workerv, kvars,
                   clone, cvalues, ovl, mems, otherv>>

\* ---------------------------------------------------------- core/program
\* BIN_HEADER_SIZE_V1: format version, spirv len, binary_type
BIN_HEADER_SIZE_V1 == 4 + 4 + 4
BIN_HEADER_SIZE == BIN_HEADER_SIZE_V1

\* cl_program_binary_type
BinType == [NONE |-> 0, COMPILED_OBJECT |-> 1, LIBRARY |-> 2, EXECUTABLE |-> 4]

\* the devices of the program, in the order of Program::devs
Devs == <<"d1", "d2">>

\* Option<SPIRVBin>: None, or the words of the module and whether its
\* kernel info was parsed
NoSpirv == [some |-> FALSE, data |-> <<>>, info |-> FALSE]
Spirv(data, info) == [some |-> TRUE, data |-> data, info |-> info]

\* the modules the compiler produces for the source, depending on device
\* and options: kernel k(int), kernel k(float), kernels k(int) and j(int)
ClcData == {<<1>>, <<2>>, <<1, 3>>}

\* clc_parse_spirv: the kernels of a module, in declaration order
SpvKernelNames(data) ==
    CASE data = <<1>> -> <<"k">>
      [] data = <<2>> -> <<"k">>
      [] data = <<1, 3>> -> <<"k", "j">>
      [] OTHER -> <<>>

\* clc_parse_spirv: the argument signature of a kernel of the module
SpvKernelArgs(data, name) ==
    IF data = <<2>> THEN <<"float">> ELSE <<"int">>

\* SPIRVBin::from_clc: None when the compiler fails, else info: None
SpirvFromClc(out) == IF out = <<>> THEN NoSpirv ELSE Spirv(out, FALSE)

\* SPIRVBin::link of one module: None when the linker fails; the kernel
\* info is parsed unless a library is made
SpirvLink(spirv, library, ok) ==
    IF ok THEN Spirv(spirv.data, ~library) ELSE NoSpirv

\* SPIRVBin::kernels: the names of kernel_infos(), none without info
SpirvKernels(spirv) ==
    IF spirv.info THEN SpvKernelNames(spirv.data) ELSE <<>>

\* SPIRVBin::args: Vec::new() when the kernel is not found
SpirvArgs(spirv, name) ==
    IF spirv.info /\ name \in Range(SpvKernelNames(spirv.data))
    THEN SpvKernelArgs(spirv.data, name)
    ELSE <<>>

\* SPIRVBin::to_nir yields a shader when the module has the entry point
SpirvToNir(spirv, name) == name \in Range(SpvKernelNames(spirv.data))

\* SPIRVBin::to_bin, SPIRVBin::from_bin: the words of the module
SpirvToBin(spirv) == spirv.data
SpirvFromBin(bin, executable) == Spirv(bin, executable)

ProgramDevBuildNew ==
    [spirv |-> NoSpirv, status |-> "CL_BUILD_NONE", bin_type |-> BinType.NONE]

\* Program::new: a build record per device, no kernel
ProgramNew(devs, src) ==
    [devs |-> devs, src |-> src,
     builds |-> [d \in Range(devs) |-> ProgramDevBuildNew],
     kernels |-> <<>>]

\* the sequences a HashSet's into_iter().collect() may give
SeqsOfSet(S) == {q \in [1..Cardinality(S) -> S] : IsInjective(q)}

\* Program::build: what it returns and the program it leaves
ProgramBuildKernels(kernels, new) == kernels \o new

ProgramBuildResult(p, d, lib, out, link_ok) ==
    LET spirv == SpirvFromClc(out)
        linked == SpirvLink(spirv, lib, link_ok)
    IN IF ~p.src THEN [ret |-> TRUE, prog |-> p]
       ELSE IF ~spirv.some
       THEN [ret |-> FALSE,
             prog |-> [p EXCEPT !.builds[d].status = "CL_BUILD_ERROR"]]
       ELSE IF linked.some
       THEN [ret |-> TRUE,
             prog |-> [p EXCEPT
                 !.builds[d] = [spirv |-> linked, status |-> "CL_BUILD_SUCCESS",
                                bin_type |-> IF lib THEN BinType.LIBRARY
                                             ELSE BinType.EXECUTABLE],
                 !.kernels = ProgramBuildKernels(@, SpirvKernels(linked))]]
       ELSE [ret |-> FALSE,
             prog |-> [p EXCEPT !.builds[d].spirv = linked,
                                !.builds[d].status = "CL_BUILD_ERROR"]]

\* Program::compile
ProgramCompileResult(p, d, out) ==
    LET spirv == SpirvFromClc(out)
    IN IF ~p.src THEN [ret |-> TRUE, prog |-> p]
       ELSE IF spirv.some
       THEN [ret |-> TRUE,
             prog |-> [p EXCEPT
                 !.builds[d] = [spirv |-> spirv, status |-> "CL_BUILD_SUCCESS",
                                bin_type |-> BinType.COMPILED_OBJECT]]]
       ELSE [ret |-> FALSE,
             prog |-> [p EXCEPT !.builds[d].spirv = spirv,
                                !.builds[d].status = "CL_BUILD_ERROR"]]

\* Program::link of the one program p: the per-device records, and the
\* set of kernel names collected from them
ProgramLinkBuilds(p, lib, ok) ==
    [d \in Range(p.devs) |->
        LET spirv == SpirvLink(p.builds[d].spirv, lib, ok[d])
        IN IF spirv.some
           THEN [spirv |-> spirv, status |-> "CL_BUILD_SUCCESS",
                 bin_type |-> IF lib THEN BinType.LIBRARY
                              ELSE BinType.EXECUTABLE]
           ELSE [spirv |-> spirv, status |-> "CL_BUILD_ERROR",
                 bin_type |-> BinType.NONE]]

BuildsKernelSet(builds) ==
    UNION {Range(SpirvKernels(builds[d].spirv)) : d \in DOMAIN builds}

\* u32 written to and read from the binary, least significant byte first
LE4(n) == [i \in 1..4 |-> ShrBytes(n, i - 1) % 256]
ReadLE4(b, at) ==
    b[at] + 256 * b[at + 1] + 65536 * b[at + 2] + 16777216 * b[at + 3]

\* Program::bin_sizes
ProgramBinSizes(p) ==
    [d \in Range(p.devs) |->
        IF p.builds[d].spirv.some
        THEN Len(SpirvToBin(p.builds[d].spirv)) + BIN_HEADER_SIZE
        ELSE 0]

\* Program::binaries: the header and the spirv written for one device
BinHeader_NoType(len, bin_type) == LE4(1) \o LE4(len) \o LE4(BinType.NONE)
BinHeader(len, bin_type) == LE4(1) \o LE4(len) \o LE4(bin_type)

ProgramBinaries(p) ==
    [d \in Range(p.devs) |->
        LET spirv == SpirvToBin(p.builds[d].spirv)
        IN BinHeader(Len(spirv), p.builds[d].bin_type) \o spirv]

\* Program::from_bins, one binary: the build record, or a panic on an
\* unknown version or a length that does not match
FromBinsDevBuild(b) ==
    LET version == ReadLE4(b, 1)
        spirv_size == ReadLE4(b, 5)
        bin_type == ReadLE4(b, 9)
    IN IF version # 1 \/ Len(b) # BIN_HEADER_SIZE_V1 + spirv_size
       THEN [panic |-> TRUE, build |-> ProgramDevBuildNew]
       ELSE [panic |-> FALSE,
             build |-> [spirv |-> SpirvFromBin(
                                      SubSeq(b, BIN_HEADER_SIZE_V1 + 1, Len(b)),
                                      bin_type = BinType.EXECUTABLE),
                        status |-> "CL_BUILD_SUCCESS",
                        bin_type |-> bin_type]]

ProgramFromBinsBuilds(devs, bins) ==
    [d \in Range(devs) |-> FromBinsDevBuild(bins[d]).build]

ProgramFromBinsPanics(devs, bins) ==
    \E d \in Range(devs) : FromBinsDevBuild(bins[d]).panic

\* what an application may do to a binary before handing it back
Tampers == {"none", "version0", "version2", "length"}
Tamper(b, how) ==
    CASE how = "version0" -> LE4(0) \o SubSeq(b, 5, Len(b))
      [] how = "version2" -> LE4(2) \o SubSeq(b, 5, Len(b))
      [] how = "length" -> b \o <<0>>
      [] OTHER -> b

\* get_devices_with_valid_build
GetDevicesWithValidBuild(p) ==
    {d \in Range(p.devs) : p.builds[d].status = "CL_BUILD_SUCCESS"}

\* Program::nirs panics where to_nir gives no shader for a built device
ProgramNirsPanics(p, name) ==
    \E d \in GetDevicesWithValidBuild(p) :
        ~SpirvToNir(p.builds[d].spirv, name)

\* the HashSet of p.args(d, name) over the devices with a valid build
KernelArgsSet(p, name) ==
    {SpirvArgs(p.builds[d].spirv, name) : d \in GetDevicesWithValidBuild(p)}

NullName == "NULL"
KernelNames == {"k", "j", "x", NullName}

\* create_kernel: the checks in their order
CreateKernelResult(p, name) ==
    IF name = NullName THEN "CL_INVALID_VALUE"
    ELSE IF name \notin Range(p.kernels) THEN "CL_INVALID_KERNEL_NAME"
    ELSE IF GetDevicesWithValidBuild(p) = {}
    THEN "CL_INVALID_PROGRAM_EXECUTABLE"
    ELSE IF ProgramNirsPanics(p, name) THEN "panic"
    ELSE IF Cardinality(KernelArgsSet(p, name)) # 1
    THEN "CL_INVALID_KERNEL_DEFINITION"
    ELSE "CL_SUCCESS"

\* create_kernels_in_program: the loop over p.kernels(); the names of the
\* kernels written, or a panic
RECURSIVE CreateKernelsLoop(_, _, _)
CreateKernelsLoop(p, names, write) ==
    IF names = <<>> THEN [panic |-> FALSE, created |-> <<>>]
    ELSE LET name == Head(names)
             rest == CreateKernelsLoop(p, Tail(names), write)
         IN IF Cardinality(KernelArgsSet(p, name)) # 1 THEN rest
            ELSE IF write /\ ProgramNirsPanics(p, name)
            THEN [panic |-> TRUE, created |-> <<>>]
            ELSE [panic |-> rest.panic,
                  created |-> IF rest.panic THEN <<>>
                              ELSE <<name>> \o rest.created]

CreateKernelsInProgramResult(p, num_kernels, write) ==
    IF GetDevicesWithValidBuild(p) = {} THEN "CL_INVALID_PROGRAM_EXECUTABLE"
    ELSE IF write /\ Len(p.kernels) > num_kernels THEN "CL_INVALID_VALUE"
    ELSE IF CreateKernelsLoop(p, p.kernels, write).panic THEN "panic"
    ELSE "CL_SUCCESS"

\* ---- the program's entry points
BuildProgram ==
    /\ UNCHANGED nonprogv
    /\ Len(prog.kernels) + 2 <= MaxKernelNames
    /\ \E d \in Range(prog.devs), lib \in BOOLEAN,
          out \in ClcData \cup {<<>>}, link_ok \in BOOLEAN :
        LET r == ProgramBuildResult(prog, d, lib, out, link_ok)
        IN /\ prog' = r.prog
           /\ pret' = [op |-> "build", ret |-> r.ret, dev |-> d]

CompileProgram ==
    /\ UNCHANGED nonprogv
    /\ \E d \in Range(prog.devs), out \in ClcData \cup {<<>>} :
           LET r == ProgramCompileResult(prog, d, out)
           IN /\ prog' = r.prog
              /\ pret' = [op |-> "compile", ret |-> r.ret, dev |-> d]

\* Program::link of this program alone: unwrap panics on a device without
\* spirv; else the linked program takes its place
LinkProgram ==
    /\ UNCHANGED nonprogv
    /\ \E lib \in BOOLEAN, ok \in [Range(prog.devs) -> BOOLEAN] :
           IF \E d \in Range(prog.devs) : ~prog.builds[d].spirv.some
           THEN /\ pret' = [op |-> "link", rc |-> "panic"]
                /\ UNCHANGED prog
           ELSE LET builds == ProgramLinkBuilds(prog, lib, ok)
                IN \E kernels \in SeqsOfSet(BuildsKernelSet(builds)) :
                     /\ prog' = [devs |-> prog.devs, src |-> FALSE,
                                 builds |-> builds, kernels |-> kernels]
                     /\ pret' = [op |-> "link", rc |-> "ok"]

GetProgramBinaries ==
    /\ UNCHANGED nonprogv
    /\ IF \E d \in Range(prog.devs) : ~prog.builds[d].spirv.some
       THEN /\ pret' = [op |-> "binaries", rc |-> "panic"]
            /\ UNCHANGED prog
       ELSE /\ pret' = [op |-> "binaries", rc |-> "ok",
                        bins |-> ProgramBinaries(prog),
                        sizes |-> ProgramBinSizes(prog)]
            /\ UNCHANGED prog

\* Program::from_bins on the binaries last returned, as they are or
\* tampered with; the program it builds takes the place of the old one
CreateProgramWithBinary ==
    /\ UNCHANGED nonprogv
    /\ pret.op = "binaries" /\ pret.rc = "ok"
    /\ \E how \in [Range(prog.devs) -> Tampers] :
        LET bins == [d \in Range(prog.devs) |-> Tamper(pret.bins[d], how[d])]
            builds == ProgramFromBinsBuilds(prog.devs, bins)
        IN IF ProgramFromBinsPanics(prog.devs, bins)
           THEN /\ pret' = [op |-> "from_bins", rc |-> "panic", how |-> how,
                            from |-> prog.builds]
                /\ UNCHANGED prog
           ELSE \E kernels \in SeqsOfSet(BuildsKernelSet(builds)) :
                  /\ prog' = [devs |-> prog.devs, src |-> FALSE,
                              builds |-> builds, kernels |-> kernels]
                  /\ pret' = [op |-> "from_bins", rc |-> "ok", how |-> how,
                              from |-> prog.builds]

CreateKernel ==
    /\ UNCHANGED nonprogv
    /\ \E name \in KernelNames :
           LET rc == CreateKernelResult(prog, name)
           IN /\ pret' = [op |-> "create_kernel", rc |-> rc, name |-> name,
                          created |-> IF rc = "CL_SUCCESS" THEN <<name>>
                                      ELSE <<>>]
              /\ UNCHANGED prog

CreateKernelsInProgram ==
    /\ UNCHANGED nonprogv
    /\ \E num_kernels \in 0..MaxKernelNames, write \in BOOLEAN :
           LET rc == CreateKernelsInProgramResult(prog, num_kernels, write)
               loop == CreateKernelsLoop(prog, prog.kernels, write)
           IN /\ pret' = [op |-> "create_kernels", rc |-> rc, write |-> write,
                          created |-> IF rc = "CL_SUCCESS" THEN loop.created
                                      ELSE <<>>]
              /\ UNCHANGED prog

NextProgram ==
    \/ BuildProgram
    \/ CompileProgram
    \/ LinkProgram
    \/ GetProgramBinaries
    \/ CreateProgramWithBinary
    \/ CreateKernel
    \/ CreateKernelsInProgram

\* ------------------------------------------------------- copy overlap
\* CLVec: three components, [0], [1], [2] of the source being 1, 2, 3 here
CLVecAdd(a, b) == <<a[1] + b[1], a[2] + b[2], a[3] + b[3]>>
CLVecMul(a, b) == a[1] * b[1] + a[2] * b[2] + a[3] * b[3]

\* check_copy_overlap: slice_size and block_size
SliceSize(region, row_pitch) == (region[2] - 1) * row_pitch + region[1]
BlockSize_NoSlice(region, row_pitch, slice_pitch) ==
    (region[3] - 1) * slice_pitch
BlockSize(region, row_pitch, slice_pitch) ==
    (region[3] - 1) * slice_pitch + SliceSize(region, row_pitch)

\* check_copy_overlap: src_start and dst_start
CopyStart(origin, offset, row_pitch, slice_pitch) ==
    origin[3] * slice_pitch + origin[2] * row_pitch + origin[1] + offset

\* check_copy_overlap: the second and third test, on the positions within a
\* row (a slice) of pitch bytes, of which size are copied
FitsInGap_NoWrap(src_d, dst_d, size, pitch) ==
    dst_d >= src_d + size \/ src_d >= dst_d + size
FitsInGap(src_d, dst_d, size, pitch) ==
    \/ dst_d >= src_d + size /\ dst_d + size <= src_d + pitch
    \/ src_d >= dst_d + size /\ src_d + size <= dst_d + pitch

\* check_copy_overlap, for a region without a 0 and pitches that are not 0
CheckCopyOverlap(src_origin, src_offset, dst_origin, dst_offset, region, row_pitch, slice_pitch) ==
    LET slice_size == SliceSize(region, row_pitch)
        block_size == BlockSize(region, row_pitch, slice_pitch)
        src_start == CopyStart(src_origin, src_offset, row_pitch, slice_pitch)
        src_end == src_start + block_size
        dst_start == CopyStart(dst_origin, dst_offset, row_pitch, slice_pitch)
        dst_end == dst_start + block_size
        src_dx == (src_origin[1] + src_offset) % row_pitch
        dst_dx == (dst_origin[1] + dst_offset) % row_pitch
        src_dy == (src_origin[2] * row_pitch + src_origin[1] + src_offset)
                      % slice_pitch
        dst_dy == (dst_origin[2] * row_pitch + dst_origin[1] + dst_offset)
                      % slice_pitch
    IN IF dst_end <= src_start \/ src_end <= dst_start THEN FALSE
       ELSE IF FitsInGap(src_dx, dst_dx, region[1], row_pitch) THEN FALSE
       ELSE IF FitsInGap(src_dy, dst_dy, slice_size, slice_pitch) THEN FALSE
       ELSE TRUE

\* size of the buffer the source and the destination belong to
CopyBufferSize == 64

\* enqueue_copy_buffer_rect: the pitches after the defaults
CopyRowPitch(inp) ==
    IF inp.row_pitch = 0 THEN inp.region[1] ELSE inp.row_pitch
CopySlicePitch(inp) ==
    IF inp.slice_pitch = 0 THEN inp.region[2] * CopyRowPitch(inp)
    ELSE inp.slice_pitch

\* enqueue_copy_buffer_rect, up to the overlap test, for a source and a
\* destination of the same parent and the same pitches for both
CopyBufferRectResult(inp) ==
    IF ContainsZero(inp.region)
       \/ (inp.row_pitch # 0 /\ inp.row_pitch < inp.region[1])
    THEN "CL_INVALID_VALUE"
    ELSE IF inp.slice_pitch # 0
            /\ (\/ inp.slice_pitch < inp.region[2] * CopyRowPitch(inp)
                \/ inp.slice_pitch % CopyRowPitch(inp) # 0)
    THEN "CL_INVALID_VALUE"
    ELSE LET pitches == <<1, CopyRowPitch(inp), CopySlicePitch(inp)>>
         IN IF \/ CLVecMul(CLVecAdd(inp.src_origin, inp.region), pitches)
                      > CopyBufferSize
               \/ CLVecMul(CLVecAdd(inp.dst_origin, inp.region), pitches)
                      > CopyBufferSize
            THEN "CL_INVALID_VALUE"
            ELSE IF CheckCopyOverlap(inp.src_origin, inp.src_offset,
                                     inp.dst_origin, inp.dst_offset,
                                     inp.region, CopyRowPitch(inp),
                                     CopySlicePitch(inp))
            THEN "CL_MEM_COPY_OVERLAP"
            ELSE "CL_SUCCESS"

\* the calls tried
CopyOrigins == {0, 2, 4} \X {0, 2} \X {0, 2}
CopyRegions == {0, 1, 2} \X {1, 2} \X {1, 2}
CopyOffsets == {<<0, 0>>, <<2, 2>>, <<0, 2>>, <<0, 1>>}
CopyInputs ==
    {[src_origin |-> s, dst_origin |-> d, region |-> r,
      src_offset |-> o[1], dst_offset |-> o[2],
      row_pitch |-> rp, slice_pitch |-> sp, out |-> "none"] :
         s \in CopyOrigins, d \in CopyOrigins, r \in CopyRegions,
         o \in CopyOffsets, rp \in {0, 1, 4}, sp \in {0, 1, 4, 12}}

\* the command enqueue_copy_buffer_rect queues: what its closure hands to
\* src.copy_to
CopyCommand(inp) ==
    [k |-> "rect", op |-> "copy", region |-> inp.region,
     src_origin |-> inp.src_origin, dst_origin |-> inp.dst_origin,
     pitches |-> <<CopyRowPitch(inp), CopySlicePitch(inp),
                   CopyRowPitch(inp), CopySlicePitch(inp)>>]

\* enqueue_copy_buffer_rect with an empty wait list on buffers of the
\* queue's context: an error returns before anything is created, otherwise
\* the event is created and the thread goes on to q.queue(&e)
EnqueueCopyBufferRect(t) ==
    /\ ovl.out = "none"
    /\ \E inp \in CopyInputs :
           LET rc == CopyBufferRectResult(inp)
           IN /\ ovl' = [inp EXCEPT !.out = rc]
              /\ IF rc = "CL_SUCCESS"
                 THEN EventCreate(t, EventNew(<<>>, CopyCommand(inp)))
                 ELSE pc[t] = "idle" /\ UNCHANGED <<ev, hostv>>
    /\ UNCHANGED <<pending, sent, lock, queued, workerv, kvars, clone,
                   cvalues, mems, mret, ctx, otherv>>

\* ------------------------------------------------- read and write rect
\* the pitches after the defaults
RectRowPitch(pitch, region) == IF pitch = 0 THEN region[1] ELSE pitch
RectSlicePitch_Rows(pitch, row_pitch, region) ==
    IF pitch = 0 THEN region[2] ELSE pitch
RectSlicePitch(pitch, row_pitch, region) ==
    IF pitch = 0 THEN region[2] * row_pitch ELSE pitch

\* the four pitches the command uses: buffer row, buffer slice, host row,
\* host slice
RectPitches(inp) ==
    LET brp == RectRowPitch(inp.buffer_row_pitch, inp.region)
        hrp == RectRowPitch(inp.host_row_pitch, inp.region)
    IN <<brp, RectSlicePitch(inp.buffer_slice_pitch, brp, inp.region),
         hrp, RectSlicePitch(inp.host_slice_pitch, hrp, inp.region)>>

\* the slice pitch test of read and write rect: not 0, less than
\* region[1] * row_pitch and not a multiple of row_pitch
RectSlicePitchInvalid(slice_pitch, row_pitch, region) ==
    /\ slice_pitch # 0
    /\ slice_pitch < region[2] * row_pitch
    /\ slice_pitch % row_pitch # 0

\* a * b in usize arithmetic overflows, for words near 0 and near 2^64; the
\* wrapped product of two such words is the product of the numbers that
\* stand for them
WordMulOverflows(a, b) == (a < 0 /\ (b < 0 \/ b > 1)) \/ (b < 0 /\ a > 1)

\* the bounds test (region + origin) * [1, row_pitch, slice_pitch] > size,
\* the sums and products wrapping as in a release build
RectOutOfBounds_Signed(origin, region, row_pitch, slice_pitch, size) ==
    CLVecMul(CLVecAdd(region, origin), <<1, row_pitch, slice_pitch>>) > size
RectOutOfBounds(origin, region, row_pitch, slice_pitch, size) ==
    WordGt(CLVecMul(CLVecAdd(region, origin), <<1, row_pitch, slice_pitch>>),
           size)

\* some sum or product of the bounds test overflows a machine word
RectBoundsOverflows(origin, region, row_pitch, slice_pitch) ==
    LET s == CLVecAdd(region, origin)
        p == <<s[1], s[2] * row_pitch, s[3] * slice_pitch>>
    IN \/ \E i \in 1..3 : WordOverflows(region[i], origin[i])
       \/ WordMulOverflows(s[2], row_pitch)
       \/ WordMulOverflows(s[3], slice_pitch)
       \/ WordOverflows(p[1], p[2])
       \/ WordOverflows(p[1] + p[2], p[3])

\* enqueue_read_buffer_rect and enqueue_write_buffer_rect for a
\* non-blocking call with valid pointers and an empty wait list on a buffer
\* of the queue's context: RectArgsResult is the tests before the bounds
\* test, RectResult the call up to Event::new
RectArgsResult(inp) ==
    IF BitCheck(inp.buf_flags,
                IF inp.op = "read" THEN {HOST_WRITE_ONLY, HOST_NO_ACCESS}
                ELSE {HOST_READ_ONLY, HOST_NO_ACCESS})
    THEN "CL_INVALID_OPERATION"
    ELSE IF \/ ContainsZero(inp.region)
            \/ inp.buffer_row_pitch # 0 /\ inp.buffer_row_pitch < inp.region[1]
            \/ inp.host_row_pitch # 0 /\ inp.host_row_pitch < inp.region[1]
    THEN "CL_INVALID_VALUE"
    ELSE IF \/ RectSlicePitchInvalid(inp.buffer_slice_pitch,
                                     RectPitches(inp)[1], inp.region)
            \/ RectSlicePitchInvalid(inp.host_slice_pitch,
                                     RectPitches(inp)[3], inp.region)
    THEN "CL_INVALID_VALUE"
    ELSE "CL_SUCCESS"

RectResult(inp) ==
    IF RectArgsResult(inp) # "CL_SUCCESS" THEN RectArgsResult(inp)
    ELSE IF RectOutOfBounds(inp.buffer_origin, inp.region, RectPitches(inp)[1],
                            RectPitches(inp)[2], CopyBufferSize)
    THEN "CL_INVALID_VALUE"
    ELSE "CL_SUCCESS"

\* the command queued: what its closure hands to read_to_user_rect or
\* write_from_user_rect
RectCommand(inp) ==
    [k |-> "rect", op |-> inp.op, region |-> inp.region,
     src_origin |-> inp.buffer_origin, dst_origin |-> inp.host_origin,
     pitches |-> RectPitches(inp)]

\* the calls tried
RectInputs(op) ==
    {[op |-> op, buf_flags |-> f, buffer_origin |-> o, host_origin |-> <<0, 0, 0>>,
      region |-> r, buffer_row_pitch |-> p[1], buffer_slice_pitch |-> p[2],
      host_row_pitch |-> p[3], host_slice_pitch |-> p[4], out |-> "none"] :
         f \in {{}, {HOST_WRITE_ONLY}, {HOST_READ_ONLY}},
         o \in {0, 2} \X {0, 2} \X {0, 2}, r \in CopyRegions,
         p \in {0, 1, 2, 4} \X {0, 2, 4, 6} \X {0, 2} \X {0, 4}}

EnqueueRect(t, op) ==
    /\ ovl.out = "none"
    /\ \E inp \in RectInputs(op) :
           LET rc == RectResult(inp)
           IN /\ ovl' = [inp EXCEPT !.out = rc]
              /\ IF rc = "CL_SUCCESS"
                 THEN EventCreate(t, EventNew(<<>>, RectCommand(inp)))
                 ELSE pc[t] = "idle" /\ UNCHANGED <<ev, hostv>>
    /\ UNCHANGED <<pending, sent, lock, queued, workerv, kvars, clone,
                   cvalues, mems, mret, ctx, otherv>>

EnqueueReadBufferRect(t) == EnqueueRect(t, "read")
EnqueueWriteBufferRect(t) == EnqueueRect(t, "write")

\* the calls tried with origins near 2^64: -1 stands for 2^64 - 1
RectWordInputs(op) ==
    {[op |-> op, buf_flags |-> {}, buffer_origin |-> o,
      host_origin |-> <<0, 0, 0>>, region |-> r,
      buffer_row_pitch |-> p[1], buffer_slice_pitch |-> p[2],
      host_row_pitch |-> 0, host_slice_pitch |-> 0, out |-> "none"] :
         o \in {-1, 0, 2} \X {-1, 0, 2} \X {-1, 0, 2},
         r \in {1, 2, 4} \X {1, 2, 4} \X {1, 2, 4},
         p \in {0, 4} \X {0, 16}}

\* enqueue_read_buffer_rect and enqueue_write_buffer_rect for arguments
\* that are any machine word; checks is whether the build has overflow
\* checks, under which an overflowing sum or product of the bounds test
\* panics
RectWordResult(inp, checks) ==
    IF /\ checks
       /\ RectArgsResult(inp) = "CL_SUCCESS"
       /\ RectBoundsOverflows(inp.buffer_origin, inp.region,
                              RectPitches(inp)[1], RectPitches(inp)[2])
    THEN "panic"
    ELSE RectResult(inp)

EnqueueRectWord(t, op) ==
    /\ ovl.out = "none"
    /\ \E inp \in RectWordInputs(op), checks \in BOOLEAN :
           LET rc == RectWordResult(inp, checks)
           IN /\ ovl' = [inp EXCEPT !.out = rc]
              /\ IF rc = "CL_SUCCESS"
                 THEN EventCreate(t, EventNew(<<>>, RectCommand(inp)))
                 ELSE pc[t] = "idle" /\ UNCHANGED <<ev, hostv>>
    /\ UNCHANGED <<pending, sent, lock, queued, workerv, kvars, clone,
                   cvalues, mems, mret, ctx, otherv>>

\* ------------------------------------- copy rect with pitches per side
\* enqueue_copy_buffer_rect for a source and a destination of the same
\* parent whose pitches may differ; same_buffer is src_buffer == dst_buffer
CopyPitches(inp) ==
    LET srp == RectRowPitch(inp.src_row_pitch, inp.region)
        drp == RectRowPitch(inp.dst_row_pitch, inp.region)
    IN <<srp, RectSlicePitch(inp.src_slice_pitch, srp, inp.region),
         drp, RectSlicePitch(inp.dst_slice_pitch, drp, inp.region)>>

CopyRectResult(inp) ==
    LET r == inp.region
        p == CopyPitches(inp)
    IN IF \/ ContainsZero(r)
          \/ inp.src_row_pitch # 0 /\ inp.src_row_pitch < r[1]
          \/ inp.dst_row_pitch # 0 /\ inp.dst_row_pitch < r[1]
       THEN "CL_INVALID_VALUE"
       ELSE IF \/ inp.src_slice_pitch # 0 /\ inp.src_slice_pitch < r[2] * p[1]
               \/ inp.dst_slice_pitch # 0 /\ inp.dst_slice_pitch < r[2] * p[3]
               \/ inp.src_slice_pitch # 0 /\ inp.src_slice_pitch % p[1] # 0
               \/ inp.dst_slice_pitch # 0 /\ inp.dst_slice_pitch % p[3] # 0
       THEN "CL_INVALID_VALUE"
       ELSE IF inp.same_buffer /\ p[2] # p[4] /\ p[1] # p[3]
       THEN "CL_INVALID_VALUE"
       ELSE IF \/ RectOutOfBounds(inp.src_origin, r, p[1], p[2], CopyBufferSize)
               \/ RectOutOfBounds(inp.dst_origin, r, p[3], p[4], CopyBufferSize)
       THEN "CL_INVALID_VALUE"
       ELSE IF CheckCopyOverlap(inp.src_origin, inp.src_offset,
                                inp.dst_origin, inp.dst_offset, r, p[1], p[2])
       THEN "CL_MEM_COPY_OVERLAP"
       ELSE "CL_SUCCESS"

\* the calls tried: on one buffer, and on two sub-buffers of one parent
CopyPitchInputs ==
    {[src_origin |-> s, dst_origin |-> d, region |-> r,
      same_buffer |-> o[1], src_offset |-> o[2], dst_offset |-> o[3],
      src_row_pitch |-> sp[1], src_slice_pitch |-> sp[2],
      dst_row_pitch |-> dp[1], dst_slice_pitch |-> dp[2], out |-> "none"] :
         s \in {0, 2} \X {0, 1, 3} \X {0}, d \in {0, 2} \X {0, 1, 3} \X {0},
         r \in {1, 2} \X {1, 2} \X {1},
         o \in {<<TRUE, 0, 0>>, <<FALSE, 0, 0>>, <<FALSE, 0, 2>>},
         sp \in {0, 2} \X {0, 16}, dp \in {0, 2, 4} \X {0, 16}}

CopyPitchCommand(inp) ==
    [k |-> "rect", op |-> "copy", region |-> inp.region,
     src_origin |-> inp.src_origin, dst_origin |-> inp.dst_origin,
     pitches |-> CopyPitches(inp)]

EnqueueCopyBufferRectPitches(t) ==
    /\ ovl.out = "none"
    /\ \E inp \in CopyPitchInputs :
           LET rc == CopyRectResult(inp)
           IN /\ ovl' = [inp EXCEPT !.out = rc]
              /\ IF rc = "CL_SUCCESS"
                 THEN EventCreate(t, EventNew(<<>>, CopyPitchCommand(inp)))
                 ELSE pc[t] = "idle" /\ UNCHANGED <<ev, hostv>>
    /\ UNCHANGED <<pending, sent, lock, queued, workerv, kvars, clone,
                   cvalues, mems, mret, ctx, otherv>>

\* ------------------------------------------ blocking enqueue_map_buffer
\* enqueue_map_buffer with blocking_map, seen from the queue: q.flush(true),
\* which waits for the last pending event if there is one, and then b.map,
\* whose q.context().buffer_map runs on the calling thread
MapBufferFlush(t) ==
    /\ pc[t] = "idle"
    /\ lock = NoThread
    /\ Len(sent) < MaxBatches
    /\ sent' = Append(sent, DrainBatch(pending))
    /\ pending' = DrainRest(pending)
    /\ IF pending # <<>>
       THEN /\ pc' = [pc EXCEPT ![t] = "map_wait"]
            /\ targ' = [targ EXCEPT ![t] = FlushLast(pending)]
            /\ lock' = t
       ELSE /\ pc' = [pc EXCEPT ![t] = "map_call"]
            /\ UNCHANGED <<targ, lock>>
    /\ UNCHANGED <<ev, queued, tbatch, workerv, kvars, objv>>

\* the wait of the flush returns, the guard is dropped and buffer_map starts
MapBufferMap(t) ==
    /\ pc[t] = "map_wait"
    /\ Resolved(ev[targ[t]].status)
    /\ ev' = EventWait(ev, targ[t])
    /\ pc' = [pc EXCEPT ![t] = "map_call"]
    /\ targ' = [targ EXCEPT ![t] = 0]
    /\ lock' = NoThread
    /\ UNCHANGED <<pending, sent, queued, tbatch, workerv, kvars, objv>>

\* buffer_map returns and the call returns the address
MapBufferReturn(t) ==
    /\ pc[t] = "map_call"
    /\ pc' = [pc EXCEPT ![t] = "idle"]
    /\ UNCHANGED <<ev, pending, sent, lock, queued, targ, tbatch, workerv,
                   kvars, objv>>

\* the closure of a command issues backend calls on the queue's context: a
\* buffer write (write_from_user) and a grid launch do
UsesContext(work) ==
    \/ work.k = "launch"
    \/ work.k = "ret" /\ "by" \in DOMAIN work

\* ------------------------------------------- kernels of several devices
\* the uniform variables of one kernel with three scalar parameters after
\* each device's own optimisation: nir_remove_dead_variables drops the
\* parameters that device's shader does not read, and the survivors get
\* that device's driver locations
DevBuild(nir) == [BuildScalars EXCEPT !.nir = nir]
DevBuilds ==
    {BuildScalars,
     DevBuild(<< [location |-> 0, driver_location |-> 0],
                 [location |-> 1, driver_location |-> 2],
                 [location |-> 2, driver_location |-> 3],
                 [location |-> 3, driver_location |-> 8] >>),
     DevBuild(<< [location |-> 1, driver_location |-> 0],
                 [location |-> 2, driver_location |-> 1],
                 [location |-> 3, driver_location |-> 8] >>),
     DevBuild(<< [location |-> 2, driver_location |-> 0],
                 [location |-> 3, driver_location |-> 8] >>)}

\* Kernel::new for the devices of order, the order in which the HashMap
\* nirs iterates: the arguments come from the first shader, and
\* assign_locations runs once per device on the one vector of arguments
RECURSIVE AssignLocationsDevs(_, _, _)
AssignLocationsDevs(k, nirs, order) ==
    IF order = <<>> THEN k
    ELSE AssignLocationsDevs(AssignLocations(k, nirs[Head(order)].nir),
                             nirs, Tail(order))

KernelNewDevs(nirs, order) ==
    LET first == nirs[Head(order)]
        k == AssignLocationsDevs([args |-> FromSpirvNir(first.spirv),
                                  internal_args |-> InternalArgs(first),
                                  shared_size |-> first.shared_size],
                                 nirs, order)
    IN [args |-> k.args, internal_args |-> k.internal_args,
        shared_size |-> k.shared_size, nirs |-> nirs]

\* what Kernel::launch reads on a queue of device d: the kernel's arguments
\* and self.nirs.get(&q.device)
KernelOn(k, d) ==
    [args |-> k.args, internal_args |-> k.internal_args,
     shared_size |-> k.nirs[d].shared_size]

\* the launch requests tried on each device
DevRequests ==
    [work_dim : {1, 2}, gws : {Arr(<<4, 6>>), Arr(<<6, 6>>)},
     lws : {NullArr, Arr(<<2, 2>>)}, gwo : {NullArr}]

\* enqueue_ndrange_kernel on a queue of device d, for the accepted calls;
\* the event's closure remembers the device of its queue
EnqueueNDRangeOn(t, d) ==
    \E req \in DevRequests :
        LET k == KernelOn(kern, d)
            rc == NDRangeResult(k, values, req)
            cb == NDRangeClosure(k, values, req)
        IN /\ pc[t] = "idle"
           /\ rc = "CL_SUCCESS"
           /\ cb.k = "launch" /\ ~cb.panic
           /\ kret' = rc
           /\ EventCreate(t, EventNew(<<>>, [launch |-> cb, dev |-> d,
                                             k |-> "launch_on"]))
           /\ UNCHANGED <<kern, values, pending, sent, lock, queued, workerv,
                          objv>>

\* ------------------------------------------------------------------ specs
NoKernel == [args |-> <<>>, internal_args |-> <<>>, shared_size |-> 0]

InitQueue ==
    /\ ev = <<>>
    /\ pending = <<>>
    /\ sent = <<>>
    /\ recvd = 0
    /\ lock = NoThread
    /\ pc = [t \in Threads |-> "idle"]
    /\ targ = [t \in Threads |-> 0]
    /\ tbatch = [t \in Threads |-> 0]
    /\ wpc = "recv"
    /\ wi = 1
    /\ wj = 1
    /\ running = {}
    /\ calllog = <<>>
    /\ queued = <<>>
    /\ launches = <<>>
    /\ clone = 0
    /\ cvalues = <<>>
    /\ mems = <<>>
    /\ mret = [op |-> "none"]
    /\ ovl = [out |-> "none"]
    /\ ctx = ContextNew
    /\ prog = ProgramNew(Devs, TRUE)
    /\ pret = [op |-> "none"]
    /\ chan = "open"

Init ==
    /\ InitQueue
    /\ kern = NoKernel
    /\ values = <<>>
    /\ kret = "none"

Next ==
    \/ \E t \in Threads : EnqueueCommand(t)
    \/ \E t \in Threads : QueuePush(t)
    \/ \E t \in Threads : Flush(t)
    \/ \E t \in Threads : FlushReturn(t)
    \/ \E t \in Threads : CreateUserEvent(t)
    \/ \E t \in Threads : SetUserEventStatus(t)
    \/ Worker

Spec == Init /\ [][Next]_vars

\* the kernel path: one host thread sets arguments and launches a kernel of
\* one of the builds, with calls that are accepted
InitKernel ==
    /\ InitQueue
    /\ \E b \in Builds : kern = KernelNew(b) /\ values = ValuesNew(KernelNew(b))
    /\ kret = "none"

NextKernel ==
    \/ SetKernelArg /\ kret' = "CL_SUCCESS"
    \/ Len(ev) < MaxKernelEvents /\ EnqueueNDRangeKernel("t1")
                                  /\ kret' = "CL_SUCCESS"
    \/ Len(ev) < MaxKernelEvents /\ CreateUserEvent("t1")
    \/ SetUserEventStatus("t1")
    \/ QueuePush("t1")
    \/ FlushSend("t1", FALSE)
    \/ Worker

SpecKernel == InitKernel /\ [][NextKernel]_vars

\* the API calls on a kernel, accepted or rejected, without the worker
InitArgs == InitKernel

NextArgs ==
    \/ SetKernelArg
    \/ Len(ev) < MaxKernelEvents /\ EnqueueNDRangeKernel("t1")
    \/ QueuePush("t1")

SpecArgs == InitArgs /\ [][NextArgs]_vars

\* a kernel and its clone, each taking set_kernel_arg calls
InitClone == InitKernel

NextClone ==
    \/ SetKernelArg
    \/ CloneKernel
    \/ SetKernelArgClone

SpecClone == InitClone /\ [][NextClone]_vars

\* the memory object calls
InitMem == Init

NextMem ==
    \/ CreateBuffer
    \/ CreateSubBuffer
    \/ CreateImage
    \/ GetSupportedImageFormats

SpecMem == InitMem /\ [][NextMem]_vars

\* one enqueue_copy_buffer_rect call and its q.queue
InitOverlap == Init

NextOverlap ==
    \/ EnqueueCopyBufferRect("t1")
    \/ QueuePush("t1")

SpecOverlap == InitOverlap /\ [][NextOverlap]_vars

\* one rect call, read, write or copy, and its q.queue
InitRect == Init

NextRect ==
    \/ EnqueueReadBufferRect("t1")
    \/ EnqueueWriteBufferRect("t1")
    \/ EnqueueCopyBufferRect("t1")
    \/ QueuePush("t1")

SpecRect == InitRect /\ [][NextRect]_vars

\* one rect call whose origin is any machine word, and its q.queue
NextBounds ==
    \/ EnqueueRectWord("t1", "read")
    \/ EnqueueRectWord("t1", "write")
    \/ EnqueueCopyBufferRect("t1")
    \/ QueuePush("t1")

SpecBounds == InitRect /\ [][NextBounds]_vars

\* map and unmap calls of two host threads on a buffer and a sub-buffer of it
\* a buffer and a sub-buffer of it, as create_buffer and create_sub_buffer
\* leave them: the sub-buffer holds a reference on its parent
BufferAndSubBuffer ==
    <<[MemNewBuffer({HOST_READ_ONLY}, 4) EXCEPT !.refs = 2],
      MemNewSubBuffer(1, {HOST_READ_ONLY}, 0, 2)>>

InitMap ==
    /\ ev = <<>> /\ pending = <<>> /\ sent = <<>> /\ recvd = 0
    /\ lock = NoThread
    /\ pc = [t \in Threads |-> "idle"]
    /\ targ = [t \in Threads |-> 0]
    /\ tbatch = [t \in Threads |-> 0]
    /\ wpc = "recv" /\ wi = 1 /\ wj = 1
    /\ running = {} /\ calllog = <<>> /\ queued = <<>> /\ launches = <<>>
    /\ kern = NoKernel /\ values = <<>> /\ kret = "none"
    /\ clone = 0 /\ cvalues = <<>>
    /\ mems = BufferAndSubBuffer
    /\ mret = [op |-> "none"]
    /\ ovl = [out |-> "none"]
    /\ ctx = ContextRetain(ContextRetain(ContextNew))
    /\ prog = ProgramNew(Devs, TRUE)
    /\ pret = [op |-> "none"]
    /\ chan = "open"

NextMap ==
    \/ \E t \in Threads : EnqueueMapBuffer(t)
    \/ \E t \in Threads : MapInsert(t)
    \/ \E t \in Threads : EnqueueUnmapMemObject(t)
    \/ WorkerRecv

SpecMap == InitMap /\ [][NextMap]_vars

\* destructor callbacks: registration, retain and release on a buffer, its
\* sub-buffer and their context
InitDtor == InitMap

NextDtor ==
    \/ SetMemObjectDestructorCallback
    \/ SetContextDestructorCallback
    \/ RetainMemObject
    \/ ReleaseMemObject
    \/ RetainContext
    \/ ReleaseContext

SpecDtor == InitDtor /\ [][NextDtor]_vars

\* the queue is used by one thread and then dropped; another thread
\* completes the user events
InitDrop == Init

NextDrop ==
    \/ chan = "open" /\ EnqueueCommand("t1")
    \/ chan = "open" /\ QueuePush("t1")
    \/ chan = "open" /\ Flush("t1")
    \/ FlushReturn("t1")
    \/ CreateUserEvent("t2")
    \/ SetUserEventStatus("t2")
    \/ QueueDrop("t1")
    \/ QueueDropReturn("t1")
    \/ Worker
    \/ WorkerExit

SpecDrop == InitDrop /\ [][NextDrop]_vars

\* the worker thread runs, a thread blocked in a wait resumes, and the
\* application completes its user events
SpecDropLive ==
    /\ SpecDrop
    /\ WF_vars(Worker)
    /\ WF_vars(WorkerExit)
    /\ WF_vars(FlushReturn("t1"))
    /\ WF_vars(QueueDropReturn("t1"))
    /\ WF_vars(SetUserEventStatus("t2"))

\* launches of a kernel over the launch requests: the kernel of three
\* scalars, each argument set by set_kernel_arg
LaunchKernel == KernelNew(BuildScalars)
LaunchValue == [null |-> FALSE, bytes |-> <<1, 2>>, handle |-> "null"]
LaunchValues ==
    SetKernelArgValues(LaunchKernel,
        SetKernelArgValues(LaunchKernel,
            SetKernelArgValues(LaunchKernel, ValuesNew(LaunchKernel),
                               0, 2, LaunchValue),
            1, 1, LaunchValue),
        2, 1, LaunchValue)

InitLaunch ==
    /\ InitQueue
    /\ kern = LaunchKernel
    /\ values = LaunchValues
    /\ kret = "CL_SUCCESS"

NextLaunch ==
    \/ Len(ev) < MaxKernelEvents /\ EnqueueNDRangeAny("t1")
                                  /\ kret' = "CL_SUCCESS"
    \/ Len(ev) < MaxLaunches /\ CreateUserEvent("t1")
    \/ SetUserEventStatus("t1")
    \/ QueuePush("t1")
    \/ FlushSend("t1", FALSE)
    \/ Worker

SpecLaunch == InitLaunch /\ [][NextLaunch]_vars

\* launches with local sizes around the device's maximum, accepted or
\* rejected, without the worker
NextWorkItem ==
    \/ Len(ev) < MaxKernelEvents /\ EnqueueNDRangeSized("t1")
    \/ Len(ev) < MaxLaunches /\ CreateUserEvent("t1")
    \/ SetUserEventStatus("t1")
    \/ QueuePush("t1")

SpecWorkItem == InitLaunch /\ [][NextWorkItem]_vars

\* one host thread that enqueues commands, flushes and finishes the queue
NextFinish ==
    \/ EnqueueCommand("t1")
    \/ QueuePush("t1")
    \/ FlushSend("t1", FALSE)
    \/ FinishQueue("t1")
    \/ FinishReturn("t1")
    \/ FlushReturn("t1")
    \/ Worker

SpecFinish == Init /\ [][NextFinish]_vars

\* a thread making blocking calls while another enqueues and flushes
NextBlocking ==
    \/ EnqueueBlocking("t1")
    \/ BlockingPush("t1")
    \/ BlockingFlush("t1")
    \/ FlushReturn("t1")
    \/ FinishReturn("t1")
    \/ EnqueueCommand("t2")
    \/ QueuePush("t2")
    \/ FlushSend("t2", FALSE)
    \/ Worker

SpecBlocking == Init /\ [][NextBlocking]_vars

\* two host threads that enqueue and flush without waiting, with the
\* scheduling the worker relies on: the worker thread runs, a thread that
\* created an event goes on to queue it, and a user event that stands for a
\* dependency of another queue is completed
NextQueueLive ==
    \/ \E t \in Threads : EnqueueCommand(t)
    \/ \E t \in Threads : QueuePush(t)
    \/ \E t \in Threads : FlushSend(t, FALSE)
    \/ CreateUserEvent("t2")
    \/ SetUserEventStatus("t2")
    \/ Worker

SpecQueueLive ==
    /\ Init
    /\ [][NextQueueLive]_vars
    /\ WF_vars(Worker)
    /\ \A t \in Threads : WF_vars(QueuePush(t))
    /\ WF_vars(SetUserEventStatus("t2"))

\* a kernel with a constant buffer, its arguments set; one thread makes
\* blocking buffer writes, the other launches the kernel and maps a buffer
MemKernel == KernelNew(BuildMems)
MemValues ==
    SetKernelArgValues(MemKernel,
        SetKernelArgValues(MemKernel, ValuesNew(MemKernel), 0, 8,
                           [null |-> FALSE, bytes |-> <<1, 2>>, handle |-> "m2"]),
        1, 8, NullPtr)

ContextRequests ==
    {[work_dim |-> 1, gws |-> Arr(<<4>>), lws |-> NullArr, gwo |-> NullArr]}

InitContext ==
    /\ InitQueue
    /\ kern = MemKernel
    /\ values = MemValues
    /\ kret = "CL_SUCCESS"

NextContext ==
    \/ EnqueueBlocking("t1")
    \/ BlockingPush("t1")
    \/ BlockingFlush("t1")
    \/ FlushReturn("t1")
    \/ FinishReturn("t1")
    \/ Len(ev) < MaxKernelEvents /\ EnqueueNDRange("t2", ContextRequests)
    \/ QueuePush("t2")
    \/ FlushSend("t2", FALSE)
    \/ MapBufferFlush("t2")
    \/ MapBufferMap("t2")
    \/ MapBufferReturn("t2")
    \/ Worker

SpecContext == InitContext /\ [][NextContext]_vars

\* one copy rect call with pitches of its own for each side, and its q.queue
NextCopyPitches ==
    \/ EnqueueCopyBufferRectPitches("t1")
    \/ QueuePush("t1")

SpecCopyPitches == InitRect /\ [][NextCopyPitches]_vars

\* a kernel of a program built for two devices, launched on either
InitDevices ==
    /\ InitQueue
    /\ \E b1 \in DevBuilds, b2 \in DevBuilds, order \in {Devs, Reverse(Devs)} :
           kern = KernelNewDevs([d \in Range(Devs) |->
                                     IF d = Devs[1] THEN b1 ELSE b2], order)
    /\ values = LaunchValues
    /\ kret = "CL_SUCCESS"

NextDevices ==
    \/ Len(ev) < MaxKernelEvents /\ EnqueueNDRangeOn("t1", "d1")
    \/ Len(ev) < MaxKernelEvents /\ EnqueueNDRangeOn("t1", "d2")
    \/ QueuePush("t1")

SpecDevices == InitDevices /\ [][NextDevices]_vars

\* a program for two devices: build, compile, link, binaries, kernels
InitProgram == Init

SpecProgram == InitProgram /\ [][NextProgram]_vars

\* ================================================================ claims
\* number of times e's closure was invoked
Calls(e) == Cardinality({i \in 1..Len(calllog) : calllog[i] = e})

\* position of e in the order of the queue() calls
QueuePos(e) == CHOOSE i \in 1..Len(queued) : queued[i] = e

\* the positions in e's wait list whose event has a negative status
FailedDeps(e) == {j \in 1..Len(ev[e].deps) : ev[ev[e].deps[j]].status < 0}

FirstFailedDep(e) ==
    ev[e].deps[CHOOSE j \in FailedDeps(e) : \A i \in FailedDeps(e) : j <= i]

Cmds == {e \in 1..Len(ev) : ev[e].kind = "cmd"}

\* a waiting flush whose wait on the last event can return
FlushReturning(t) == pc[t] = "flush_wait" /\ Resolved(ev[targ[t]].status)

\* C1: an event with a dependency that resolved to a negative status never
\* has its closure invoked, and once the worker has given it a status, that
\* status is the status of the first failed dependency in wait-list order.
C1_ErrorPropagation ==
    \A e \in Cmds :
        FailedDeps(e) # {} =>
            /\ Calls(e) = 0
            /\ Resolved(ev[e].status) => ev[e].status = ev[FirstFailedDep(e)].status

C1_Witness ==
    \E e \in Cmds :
        /\ Len(ev[e].deps) = 2
        /\ FailedDeps(e) = {1, 2}
        /\ ev[ev[e].deps[1]].status # ev[ev[e].deps[2]].status
        /\ ev[ev[e].deps[1]].kind = "cmd"
        /\ Resolved(ev[e].status)

\* C2: closures are invoked in the order of the queue() calls, and when a
\* flush(wait = true) can return, every event of the batch it drained that
\* has no failed dependency has had its closure invoked exactly once.
C2_SubmissionOrder ==
    /\ \A i, j \in 1..Len(calllog) :
           i < j => QueuePos(calllog[i]) < QueuePos(calllog[j])
    /\ \A t \in Threads :
           FlushReturning(t) =>
               \A e \in Range(sent[tbatch[t]]) :
                   FailedDeps(e) = {} => Calls(e) = 1 /\ e \notin running

C2_Witness ==
    \E t \in Threads :
        /\ FlushReturning(t)
        /\ Len(sent[tbatch[t]]) = 3
        /\ \A e \in Range(sent[tbatch[t]]) : ev[e].deps = <<>>
        /\ calllog = sent[tbatch[t]]
        /\ calllog # <<1, 2, 3>>

\* C3: when a flush(wait = true) can return, every event of the batch it
\* drained has a resolved status.
C3_FlushWaitsBatch ==
    \A t \in Threads :
        FlushReturning(t) =>
            \A e \in Range(sent[tbatch[t]]) : Resolved(ev[e].status)

C3_Witness ==
    \E t \in Threads :
        /\ FlushReturning(t)
        /\ Len(sent[tbatch[t]]) >= 2
        /\ \E e \in Range(sent[tbatch[t]]) : ev[e].status < 0

\* C4 as stated: an event has a status only when every event of its wait
\* list has a resolved status.
C4_AllDepsResolved ==
    \A e \in Cmds :
        Resolved(ev[e].status) =>
            \A j \in 1..Len(ev[e].deps) : Resolved(ev[ev[e].deps[j]].status)

\* C4 amended: a closure is invoked only after every dependency resolved
\* without error; an error is propagated only after the dependencies up to
\* the first failed one in wait-list order have resolved.
C4_DepsResolvedUpToFailure ==
    \A e \in Cmds :
        /\ Calls(e) > 0 =>
               \A j \in 1..Len(ev[e].deps) :
                   /\ Resolved(ev[ev[e].deps[j]].status)
                   /\ ev[ev[e].deps[j]].status >= 0
        /\ Resolved(ev[e].status) /\ Calls(e) = 0 =>
               \E j \in 1..Len(ev[e].deps) :
                   /\ ev[ev[e].deps[j]].status < 0
                   /\ \A i \in 1..j : Resolved(ev[ev[e].deps[i]].status)

C4_Witness ==
    \E e \in Cmds :
        /\ Len(ev[e].deps) = 2
        /\ Resolved(ev[e].status)
        /\ Calls(e) = 0
        /\ ~Resolved(ev[ev[e].deps[2]].status)

\* C5: a thread that has called queue() never has to wait for an event to
\* resolve: it is never held at the pending mutex by a flush(wait = true)
\* that is still blocked on its last event.
C5_QueueNeverWaits ==
    \A t \in Threads :
        pc[t] = "queue" =>
            ~\E h \in Threads :
                lock = h /\ pc[h] = "flush_wait" /\ ~Resolved(ev[targ[h]].status)

\* C6: the batches sent, concatenated in send order and followed by what is
\* still pending, are the queued events in queue() order, each once; a flush
\* sends exactly the pending list and leaves it empty.
C6_BatchesPartitionQueue ==
    /\ [](/\ Flatten(sent) \o pending = queued
          /\ IsInjective(queued))
    /\ [][Len(sent') > Len(sent) => Last(sent') = pending /\ pending' = <<>>]_vars

C6_Witness ==
    /\ Len(sent) = 2
    /\ Len(sent[1]) = 1
    /\ Len(sent[2]) = 2
    /\ queued # <<1, 2, 3>>

\* C7: the worker sets an event's status once and invokes its closure at
\* most once; a resolved status never changes, and every wait on the event
\* returned that status.
C7_StatusSetOnce ==
    /\ [](\A e \in Cmds :
            /\ ev[e].nset <= 1
            /\ Calls(e) <= 1
            /\ Resolved(ev[e].status) <=> ev[e].nset = 1
            /\ ev[e].seen \subseteq {ev[e].status})
    /\ [][\A e \in 1..Len(ev) :
            Resolved(ev[e].status) => ev'[e].status = ev[e].status]_vars

C7_Witness ==
    \E e \in Cmds :
        /\ wpc = "recv"
        /\ recvd = 2
        /\ e \in Range(sent[1])
        /\ ev[e].nset = 1
        /\ ev[e].seen = {CL_OUT_OF_HOST_MEMORY}
        /\ \E f \in Cmds : ev[f].deps = <<e>> /\ ev[f].seen # {}

\* C8: every event of a batch before the one the worker is processing has a
\* resolved status, no event of a batch the worker has not received has been
\* started, and at most one closure is executing.
C8_FlushBarrier ==
    /\ \A b \in 1..Len(sent) : \A e \in Range(sent[b]) :
           /\ (b < recvd \/ (b = recvd /\ wpc = "recv")) => Resolved(ev[e].status)
           /\ b > recvd => ev[e].status = CL_QUEUED /\ Calls(e) = 0
                           /\ ev[e].nset = 0
    /\ Cardinality(running) <= 1

C8_Witness ==
    /\ recvd = 2
    /\ wpc = "call"
    /\ Len(sent[1]) = 2
    /\ Cardinality(running) = 1

\* a request whose global work size is null or has a 0 in a requested dimension
ZeroSized(req) ==
    req.gws.null \/ \E i \in 1..req.work_dim : req.gws.a[i] = 0

\* the closure that does nothing and returns Ok(())
TrivialClosure == [k |-> "ret", r |-> CL_COMPLETE]

\* C9: a launch request that passes validation with a null global work size
\* or a 0 in a requested dimension gets the closure that does nothing; such
\* an event adds no backend launch, and it resolves to success when no
\* dependency failed and to the failed dependency's status otherwise.
C9_ZeroSizeLaunch ==
    /\ \A req \in NDRequests :
           NDRangeResult(kern, values, req) = "CL_SUCCESS" /\ ZeroSized(req) =>
               NDRangeClosure(kern, values, req) = TrivialClosure
    /\ \A e \in Cmds :
           ev[e].work = TrivialClosure /\ Resolved(ev[e].status) =>
               IF FailedDeps(e) = {}
               THEN /\ ev[e].status = CL_COMPLETE
                    /\ \A j \in 1..Len(ev[e].deps) :
                           ev[ev[e].deps[j]].status = CL_COMPLETE
               ELSE ev[e].status = ev[FirstFailedDep(e)].status
    /\ Len(launches) =
           Cardinality({e \in Cmds : /\ ev[e].work.k = "launch"
                                     /\ Calls(e) = 1
                                     /\ e \notin running})

C9_Witness ==
    /\ launches = <<>>
    /\ kret = "CL_SUCCESS"
    /\ \E e \in Cmds :
           /\ ev[e].work = TrivialClosure
           /\ Len(ev[e].deps) = 1
           /\ Calls(e) = 1
           /\ ev[e].status = CL_COMPLETE

\* every cell of the kernel holds a value
AllSet(vals) == \A i \in 1..Len(vals) : vals[i] # Unset

WithoutIdx(s, i) == SubSeq(s, 1, i - 1) \o SubSeq(s, i + 1, Len(s))

\* the input buffer of a one-dimensional launch of k with the cells vals
LaunchInput(k, vals) == Launch(k, vals, 1, ZERO_ARR, <<4>>, ZERO_ARR).input

\* C10: a set_kernel_arg call that stores arg_size bytes for a live
\* value-constant argument makes a launch put those bytes at the argument's
\* offset, and a launch puts the stored bytes of every live value-constant
\* argument at its offset; an accepted call for a dead argument returns
\* success and stores none, and a launch places no bytes for the argument.
C10_ArgRoundTrip ==
    /\ AllSet(values) =>
           \A i \in 1..Len(kern.args) :
               values[i].t = "Constant" =>
                   /\ Len(values[i].bytes) = kern.args[i].size
                   /\ SubSeq(LaunchInput(kern, values), kern.args[i].offset + 1,
                             kern.args[i].offset + kern.args[i].size)
                          = values[i].bytes
    /\ \A arg_index \in 0..(Len(kern.args) - 1), arg_size \in ArgSizes,
          arg_value \in ArgValues :
           LET arg == kern.args[arg_index + 1]
               rc == SetKernelArgResult(kern, arg_index, arg_size, arg_value)
               vals == SetKernelArgValues(kern, values, arg_index, arg_size,
                                          arg_value)
           IN /\ arg.kind = "Constant" /\ ~arg.dead /\ rc = "CL_SUCCESS"
                     /\ AllSet(vals) =>
                      SubSeq(LaunchInput(kern, vals), arg.offset + 1,
                             arg.offset + arg_size)
                          = SubSeq(arg_value.bytes, 1, arg_size)
              /\ arg.dead /\ ArgSizeOk(arg, arg_size)
                     /\ ArgValueOk(arg, arg_value) =>
                      /\ rc = "CL_SUCCESS"
                      /\ vals[arg_index + 1] = [t |-> "None"]
                      /\ AllSet(vals) =>
                             LaunchInput(kern, vals) =
                                 LaunchInput([kern EXCEPT !.args =
                                                  WithoutIdx(@, arg_index + 1)],
                                             WithoutIdx(vals, arg_index + 1))

C10_Witness ==
    /\ kret = "CL_SUCCESS"
    /\ Len(values) = 3
    /\ values[1] = [t |-> "Constant", bytes |-> <<2, 1>>]
    /\ values[2] = [t |-> "None"]
    /\ values[3] = [t |-> "Constant", bytes |-> <<1>>]
    /\ \E e \in Cmds :
           /\ ev[e].work.k = "launch"
           /\ ev[e].work.input = LaunchInput(kern, values)
           /\ SubSeq(ev[e].work.input, 1, 5) = <<2, 1, 0, 0, 1>>

\* C11: set_kernel_arg rejects an index outside the argument list, a size
\* other than the declared one for a non-local argument, a zero size or a
\* non-null value for a local argument, and a null value for a
\* value-constant or sampler argument; a rejected call leaves every cell as
\* it was and an accepted call replaces the addressed cell only.
C11_SetArgRejects ==
    /\ [](\A arg_index \in 0..Len(kern.args), arg_size \in ArgSizes,
             arg_value \in ArgValues :
            LET rc == SetKernelArgResult(kern, arg_index, arg_size, arg_value)
                vals == SetKernelArgValues(kern, values, arg_index, arg_size,
                                           arg_value)
            IN /\ arg_index >= Len(kern.args) => rc = "CL_INVALID_ARG_INDEX"
               /\ arg_index < Len(kern.args) =>
                      LET arg == kern.args[arg_index + 1]
                      IN /\ arg.kind # "MemLocal" /\ arg_size # arg.size =>
                                rc = "CL_INVALID_ARG_SIZE"
                         /\ arg.kind = "MemLocal" /\ arg_size = 0 =>
                                rc = "CL_INVALID_ARG_SIZE"
                         /\ arg.kind = "MemLocal" /\ arg_size # 0
                                /\ ~arg_value.null =>
                                rc = "CL_INVALID_ARG_VALUE"
                         /\ arg.kind \in {"Constant", "Sampler"}
                                /\ arg_size = arg.size /\ arg_value.null =>
                                rc = "CL_INVALID_ARG_VALUE"
               /\ rc # "CL_SUCCESS" => vals = values
               /\ rc = "CL_SUCCESS" =>
                      /\ Len(vals) = Len(values)
                      /\ \A j \in 1..Len(values) :
                             j # arg_index + 1 => vals[j] = values[j]
                      /\ vals[arg_index + 1] # Unset)
    /\ [][/\ kret' # "CL_SUCCESS" => values' = values
          /\ Cardinality({j \in 1..Len(values) : values'[j] # values[j]}) <= 1
         ]_vars

C11_Witness ==
    /\ kret = "CL_INVALID_ARG_VALUE"
    /\ Len(values) = 2
    /\ values[1] = [t |-> "MemObject", mem |-> "m2"]
    /\ values[2] = [t |-> "LocalMem", size |-> 2]

\* C12: when a kernel is cloned the clone's cells hold the original's values
\* and the original's are unchanged; afterwards no set_kernel_arg changes
\* the cells of both the original and the clone.
C12_CloneIndependent ==
    [][/\ clone = 0 /\ clone' # 0 =>
              CloneValues' = values /\ values' = values
       /\ clone # 0 => ~(values' # values /\ CloneValues' # CloneValues)
      ]_vars

C12_Witness ==
    /\ clone # 0
    /\ AllSet(values)
    /\ AllSet(CloneValues)
    /\ Len(values) = 3
    /\ values[1] = [t |-> "Constant", bytes |-> <<1, 2>>]
    /\ CloneValues[1] = [t |-> "Constant", bytes |-> <<2, 1>>]
    /\ values[3] # CloneValues[3]

\* the launch events whose closure has returned, in invocation order
LaunchesDone ==
    SelectSeq(calllog, LAMBDA e : ev[e].work.k = "launch" /\ e \notin running)

\* C13: what an event's closure captured never changes after the enqueue,
\* and each grid launch issued to the backend carries the input bytes,
\* resource bindings, block, grid and local-memory size its event captured
\* then, whatever set_kernel_arg stored in between.
C13_PayloadFixedAtEnqueue ==
    /\ [](/\ Len(launches) = Len(LaunchesDone)
          /\ \A i \in 1..Len(launches) :
                 LET work == ev[LaunchesDone[i]].work
                 IN /\ launches[i].input = work.input
                    /\ launches[i].resources = work.resources
                    /\ launches[i].block = work.block
                    /\ launches[i].grid = work.grid
                    /\ launches[i].local_size = work.local_size
                    /\ launches[i].work_dim = work.work_dim)
    /\ [][\A e \in 1..Len(ev) : ev'[e].work = ev[e].work]_vars

C13_Witness ==
    /\ Len(launches) = 1
    /\ launches[1].input = <<1, 2, 0, 0, 1>> \o Zeros(3) \o Zeros(24)
    /\ values[1] = [t |-> "Constant", bytes |-> <<2, 1>>]
    /\ values[3] = [t |-> "Constant", bytes |-> <<2>>]

\* every flag word
AllFlagWords == SUBSET MemFlagBits

ReadWriteGroup == {READ_WRITE, WRITE_ONLY, READ_ONLY}
HostPtrGroup == {USE_HOST_PTR, ALLOC_HOST_PTR, COPY_HOST_PTR}
HostAccessGroup == {HOST_WRITE_ONLY, HOST_READ_ONLY, HOST_NO_ACCESS}

\* at most one flag of each of the three groups
OneFlagPerGroup(w) ==
    /\ Cardinality(w \cap ReadWriteGroup) <= 1
    /\ Cardinality(w \cap HostPtrGroup) <= 1
    /\ Cardinality(w \cap HostAccessGroup) <= 1

\* C14 as stated: flag validation accepts a word only if it has at most one
\* flag of each of the three groups, so every buffer created has such flags.
C14_OneFlagPerGroup ==
    /\ \A w \in AllFlagWords :
           ValidateMemFlags(w, FALSE) = "CL_SUCCESS" => OneFlagPerGroup(w)
    /\ \A m \in 1..Len(mems) :
           mems[m].mem_type = "BUFFER" /\ mems[m].parent = 0 =>
               OneFlagPerGroup(mems[m].flags)

\* C14 amended: flag validation accepts exactly the words of known flags with
\* at most one read/write flag, at most one host-access flag, and use-host-ptr
\* combined with neither alloc-host-ptr nor copy-host-ptr; alloc-host-ptr
\* with copy-host-ptr is accepted, and every buffer created has such flags.
C14_FlagGroups ==
    /\ \A w \in AllFlagWords :
           ValidateMemFlags(w, FALSE) = "CL_SUCCESS" <=>
               /\ w \subseteq ReadWriteGroup \cup HostPtrGroup
                                \cup HostAccessGroup \cup {KERNEL_READ_AND_WRITE}
               /\ Cardinality(w \cap ReadWriteGroup) <= 1
               /\ Cardinality(w \cap HostAccessGroup) <= 1
               /\ USE_HOST_PTR \in w =>
                      ALLOC_HOST_PTR \notin w /\ COPY_HOST_PTR \notin w
    /\ \A m \in 1..Len(mems) :
           mems[m].mem_type = "BUFFER" /\ mems[m].parent = 0 =>
               /\ Cardinality(mems[m].flags \cap ReadWriteGroup) <= 1
               /\ Cardinality(mems[m].flags \cap HostAccessGroup) <= 1
               /\ USE_HOST_PTR \in mems[m].flags =>
                      mems[m].flags \cap HostPtrGroup = {USE_HOST_PTR}

C14_Witness ==
    /\ mret = [op |-> "create_buffer", rc |-> "CL_SUCCESS"]
    /\ Len(mems) = 1
    /\ mems[1].flags = {WRITE_ONLY, ALLOC_HOST_PTR, COPY_HOST_PTR}

\* the group of g is that of r when r has one and that of f otherwise
GroupInherited(g, r, f, group) ==
    g \cap group = (IF r \cap group # {} THEN r \cap group ELSE f \cap group)

\* the relation between parent flags f, requested flags r and given flags g
Inherited(g, r, f) ==
    /\ GroupInherited(g, r, f, InheritReadWriteMask)
    /\ g \cap InheritHostPtrMask = f \cap InheritHostPtrMask
    /\ GroupInherited(g, r, f, InheritHostMask)
    /\ g \ (InheritReadWriteMask \cup InheritHostPtrMask \cup InheritHostMask)
         = r \ (InheritReadWriteMask \cup InheritHostPtrMask \cup InheritHostMask)

Contradicts(f, r) ==
    \/ WRITE_ONLY \in f /\ (READ_WRITE \in r \/ READ_ONLY \in r)
    \/ READ_ONLY \in f /\ (READ_WRITE \in r \/ WRITE_ONLY \in r)
    \/ HOST_WRITE_ONLY \in f /\ HOST_READ_ONLY \in r
    \/ HOST_READ_ONLY \in f /\ HOST_WRITE_ONLY \in r
    \/ HOST_NO_ACCESS \in f /\ (HOST_READ_ONLY \in r \/ HOST_WRITE_ONLY \in r)
    \/ r \cap HostPtrGroup # {}

\* flags g grant no access that flags f exclude
NoAccessBeyond(f, g) ==
    /\ WRITE_ONLY \in f => READ_WRITE \notin g /\ READ_ONLY \notin g
    /\ READ_ONLY \in f => READ_WRITE \notin g /\ WRITE_ONLY \notin g
    /\ HOST_WRITE_ONLY \in f => HOST_READ_ONLY \notin g
    /\ HOST_READ_ONLY \in f => HOST_WRITE_ONLY \notin g
    /\ HOST_NO_ACCESS \in f => HOST_READ_ONLY \notin g /\ HOST_WRITE_ONLY \notin g

C17_ImagesRejectHostPtrFlags ==
    /\ \A w \in AllFlagWords :
           w \cap HostPtrGroup # {} =>
               ValidateMemFlags(w, TRUE) = "CL_INVALID_VALUE"
    /\ \A req \in ImageRequests(Len(mems)) :
           req.flags \cap HostPtrGroup # {} =>
               CreateImageResult(mems, req) # "CL_SUCCESS"

\* C17 amended: flag validation in image mode, which only the format query
\* uses, rejects every word with a host-pointer-origin flag; create_image
\* validates in buffer mode, so it rejects such a request for an image
\* derived from a memory object, and for an image of its own accepts it
\* exactly when the word is valid for a buffer, the host pointer matches the
\* flags and the access flags are supported.
C17_ImageHostPtrFlags ==
    /\ \A w \in AllFlagWords :
           w \cap HostPtrGroup # {} =>
               ValidateMemFlags(w, TRUE) = "CL_INVALID_VALUE"
    /\ \A req \in ImageRequests(Len(mems)) :
           req.flags \cap HostPtrGroup # {} =>
               IF req.mem_object # 0
               THEN CreateImageResult(mems, req) # "CL_SUCCESS"
               ELSE CreateImageResult(mems, req) = "CL_SUCCESS" <=>
                        /\ req.image_type # "IMAGE1D_BUFFER"
                        /\ ValidateMemFlags(req.flags, FALSE) = "CL_SUCCESS"
                        /\ ValidateHostPtr(req.host_null, req.flags) = "CL_SUCCESS"
                        /\ FilterImageAccessFlags(req.flags) \subseteq DevFormatFlags

C17_Witness ==
    /\ mret = [op |-> "create_image", rc |-> "CL_SUCCESS"]
    /\ Len(mems) = 1
    /\ mems[1].mem_type = "IMAGE2D"
    /\ mems[1].flags = {READ_ONLY, USE_HOST_PTR}

\* origin + size <= parent as unsigned words, the sum not wrapping; a
\* negative number n stands for the word 2^64 + n
RegionInBounds(origin, size, parent) ==
    origin >= 0 /\ size >= 0 /\ parent >= 0 /\ origin + size <= parent

\* C18: create_sub_buffer succeeds only if size > 0 and origin + size is at
\* most the parent's size, for every origin and size a machine word holds,
\* and every sub-buffer has offset + size within its parent's size.
C18_SubBufferInBounds ==
    /\ \A req \in SubBufferRequests(Len(mems)), checks \in BOOLEAN :
           LET rc == CreateSubBufferResult(mems, req, checks)
           IN /\ rc # "panic"
              /\ rc = "CL_SUCCESS" =>
                     /\ req.region.size # 0
                     /\ RegionInBounds(req.region.origin, req.region.size,
                                       mems[req.buffer].size)
    /\ \A m \in 1..Len(mems) :
           mems[m].parent # 0 =>
               RegionInBounds(mems[m].offset, mems[m].size,
                              mems[mems[m].parent].size)
    /\ mret.op = "create_sub_buffer" => mret.rc # "panic"

\* C19: every memory object either has no parent and holds its own resource
\* table, or has a parent, which is a root holding a table, and holds none
\* itself; so looking up an object's resources never fails.
C19_RootOrChild ==
    \A m \in 1..Len(mems) :
        /\ \/ mems[m].parent = 0 /\ mems[m].res
           \/ /\ mems[m].parent # 0
              /\ ~mems[m].res
              /\ mems[mems[m].parent].parent = 0
              /\ mems[mems[m].parent].res
        /\ MemGetRes(mems, m) # 0

\* the call of ovl got as far as the overlap test
OverlapTested == ovl.out \in {"CL_MEM_COPY_OVERLAP", "CL_SUCCESS"}

\* the two regions differ by more than the region's extent in every dimension
Separated ==
    \A i \in 1..3 :
        \/ ovl.dst_origin[i] > ovl.src_origin[i] + ovl.region[i]
        \/ ovl.src_origin[i] > ovl.dst_origin[i] + ovl.region[i]

\* the destination is beyond the source in every dimension, or the reverse
SameDirection ==
    \/ \A i \in 1..3 : ovl.dst_origin[i] > ovl.src_origin[i]
    \/ \A i \in 1..3 : ovl.src_origin[i] > ovl.dst_origin[i]

\* the rows of the region at origin lie within a row pitch and its slices
\* within a slice pitch
WithinPitches(origin) ==
    /\ origin[1] + ovl.region[1] <= CopyRowPitch(ovl)
    /\ (origin[2] + ovl.region[2]) * CopyRowPitch(ovl) <= CopySlicePitch(ovl)

Identical ==
    ovl.src_origin = ovl.dst_origin /\ ovl.src_offset = ovl.dst_offset

\* C20 as stated: check_copy_overlap is true for two identical regions and
\* false for two regions separated by more than the region's extent in every
\* dimension.
C20_OverlapIdenticalAndSeparated ==
    OverlapTested =>
        /\ Identical => ovl.out = "CL_MEM_COPY_OVERLAP"
        /\ Separated /\ ovl.src_offset = ovl.dst_offset => ovl.out = "CL_SUCCESS"

\* C20 amended: check_copy_overlap is true for two identical regions, and
\* false for two regions of the same sub-buffer offset separated by more than
\* the region's extent in every dimension when both lie within the row and
\* slice pitch or one is beyond the other in every dimension.
C20_OverlapWithinPitches ==
    OverlapTested =>
        /\ Identical => ovl.out = "CL_MEM_COPY_OVERLAP"
        /\ /\ Separated
           /\ ovl.src_offset = ovl.dst_offset
           /\ \/ WithinPitches(ovl.src_origin) /\ WithinPitches(ovl.dst_origin)
              \/ SameDirection
           => ovl.out = "CL_SUCCESS"

C20_Witness ==
    /\ ovl.out = "CL_SUCCESS"
    /\ ovl.src_origin = <<0, 0, 0>>
    /\ ovl.dst_origin = <<2, 2, 2>>
    /\ ovl.region = <<1, 1, 1>>
    /\ ovl.row_pitch = 4
    /\ ovl.slice_pitch = 12
    /\ ovl.src_offset = ovl.dst_offset

\* the byte addresses of the region at origin of the call of ovl
RegionBytes(origin, offset) ==
    {CopyStart(<<origin[1] + x, origin[2] + y, origin[3] + z>>, offset,
               CopyRowPitch(ovl), CopySlicePitch(ovl)) :
         x \in 0..(ovl.region[1] - 1), y \in 0..(ovl.region[2] - 1),
         z \in 0..(ovl.region[3] - 1)}

\* C21: for a region without a zero component and valid pitches,
\* check_copy_overlap is true exactly when some byte address belongs to both
\* the source region and the destination region.
C21_OverlapIffSharedByte ==
    OverlapTested =>
        (ovl.out = "CL_MEM_COPY_OVERLAP" <=>
             RegionBytes(ovl.src_origin, ovl.src_offset)
                 \cap RegionBytes(ovl.dst_origin, ovl.dst_offset) # {})

C21_Witness ==
    /\ ovl.out = "CL_MEM_COPY_OVERLAP"
    /\ ovl.src_origin = <<0, 0, 0>>
    /\ ovl.dst_origin = <<2, 0, 0>>
    /\ ovl.src_offset = 0
    /\ ovl.dst_offset = 1
    /\ ovl.region = <<2, 2, 1>>
    /\ ovl.row_pitch = 4
    /\ ovl.slice_pitch = 12

\* the copy-rect call with pitches 0 0 replaced by region[0] and
\* region[1] * region[0]
CopyExplicit(inp) ==
    IF inp.row_pitch = 0 /\ inp.slice_pitch = 0
    THEN [inp EXCEPT !.row_pitch = inp.region[1],
                     !.slice_pitch = inp.region[2] * inp.region[1]]
    ELSE inp

\* the read or write rect call with each pitch pair 0 0 replaced likewise
RectExplicit(inp) ==
    LET b == IF inp.buffer_row_pitch = 0 /\ inp.buffer_slice_pitch = 0
             THEN [inp EXCEPT !.buffer_row_pitch = inp.region[1],
                              !.buffer_slice_pitch = inp.region[2] * inp.region[1]]
             ELSE inp
    IN IF inp.host_row_pitch = 0 /\ inp.host_slice_pitch = 0
       THEN [b EXCEPT !.host_row_pitch = inp.region[1],
                      !.host_slice_pitch = inp.region[2] * inp.region[1]]
       ELSE b

\* the call of ovl is a read or write rect call
IsRect == ovl.out # "none" /\ "op" \in DOMAIN ovl
IsCopy == ovl.out # "none" /\ "op" \notin DOMAIN ovl

C23_MapTable ==
    [][\A t \in Threads :
           /\ MapInsert(t) => mret'.ptr \in mems'[mret'.mem].maps
           /\ EnqueueUnmapMemObject(t) =>
                  LET before == mems[mret'.mem].maps
                      after == mems'[mret'.mem].maps
                  IN /\ mret'.rc # "CL_INVALID_VALUE" <=> mret'.ptr \in before
                     /\ after = before \ {mret'.ptr}
                     /\ mret'.ptr \notin before => mems' = mems
                     /\ ~MemUnmap(after, mret'.ptr).ret]_vars

C23_Witness ==
    /\ mret = [op |-> "unmap", rc |-> "CL_INVALID_VALUE", mem |-> 1,
               ptr |-> "p1", events |-> FALSE]
    /\ Len(sent) = 1
    /\ mems[1].maps = {}
    /\ \A t \in Threads : pc[t] = "idle"

\* C24: a map or unmap call that returns an error leaves all state as it was:
\* no event is appended to the pending list, no entry is added to or removed
\* from a mapping table, and no object is created.
C24_ErrorsLeaveState ==
    [][\A t \in Threads :
           /\ EnqueueUnmapMemObject(t) /\ mret'.rc # "CL_SUCCESS"
                  => UNCHANGED <<ev, pending, sent, mems, ctx>>
           /\ EnqueueMapBuffer(t) /\ pc'[t] = "idle" /\ mret'.rc # "panic"
                  => UNCHANGED <<ev, pending, sent, mems, ctx>>]_vars

\* C25: the destructor callbacks of a context or memory object: none is
\* invoked while the object has a reference, and once it is destroyed each
\* registered callback has been invoked exactly once, the last registered
\* first.
C25_DestructorCallbacks ==
    /\ \A m \in 1..Len(mems) :
          /\ mems[m].refs > 0 => mems[m].called = <<>>
          /\ mems[m].refs = 0 => mems[m].called = Reverse(mems[m].cbs)
    /\ ctx.refs > 0 => ctx.called = <<>>
    /\ ctx.refs = 0 => ctx.called = Reverse(ctx.dtors)

C25_Witness ==
    /\ ctx.refs = 0 /\ ctx.dtors = <<"f", "g">> /\ ctx.called = <<"g", "f">>
    /\ \E m \in 1..Len(mems) :
          /\ mems[m].refs = 0
          /\ mems[m].cbs = <<"g", "f">>
          /\ mems[m].called = <<"f", "g">>

\* C26: the kernel names a program exports form a set: no name occurs
\* twice, and the names are those of the kernels of the per-device builds.
C26_KernelNamesAreASet ==
    /\ IsInjective(prog.kernels)
    /\ Range(prog.kernels) =
           UNION {Range(SpirvKernels(prog.builds[d].spirv)) :
                      d \in GetDevicesWithValidBuild(prog)}

\* the bytes of a binary after its header
BinPayload(b) == SubSeq(b, 13, Len(b))

\* C27: a binary returned by binaries() is a 12 byte header, version 1,
\* the payload length and the binary type, each 4 bytes little-endian,
\* followed by the payload, and bin_sizes is the payload length plus 12;
\* from_bins on it gives every device the same payload and binary type
\* back; a binary whose version is not 1 produces no build record.
C27_BinaryRoundTrip ==
    /\ pret.op = "binaries" /\ pret.rc = "ok" =>
          \A d \in Range(prog.devs) :
              LET b == pret.bins[d]
                  build == prog.builds[d]
              IN /\ SubSeq(b, 1, 4) = <<1, 0, 0, 0>>
                 /\ SubSeq(b, 5, 8) = <<Len(build.spirv.data), 0, 0, 0>>
                 /\ SubSeq(b, 9, 12) = <<build.bin_type, 0, 0, 0>>
                 /\ BinPayload(b) = build.spirv.data
                 /\ pret.sizes[d] = Len(build.spirv.data) + 12
                 /\ pret.sizes[d] = Len(b)
    /\ pret.op = "from_bins" /\ (\A d \in Range(prog.devs) : pret.how[d] = "none")
          => /\ pret.rc = "ok"
             /\ \A d \in Range(prog.devs) :
                    /\ prog.builds[d].spirv.data = pret.from[d].spirv.data
                    /\ prog.builds[d].bin_type = pret.from[d].bin_type
    /\ pret.op = "from_bins"
          /\ (\E d \in Range(prog.devs) : pret.how[d] \in {"version0", "version2"})
          => pret.rc = "panic" /\ prog.builds = pret.from

C27_Witness ==
    /\ pret.op = "from_bins" /\ pret.rc = "ok"
    /\ prog.builds["d1"].spirv.data = <<1, 3>>
    /\ prog.builds["d1"].bin_type = BinType.LIBRARY
    /\ prog.builds["d2"].spirv.data = <<2>>
    /\ prog.builds["d2"].bin_type = BinType.COMPILED_OBJECT

\* a binary of version 2 was handed back
C27_WitnessVersion ==
    /\ pret.op = "from_bins" /\ pret.rc = "panic"
    /\ pret.how["d1"] = "none" /\ pret.how["d2"] = "version2"

\* C28: create_kernel with a kernel name fails with
\* CL_INVALID_PROGRAM_EXECUTABLE when no device has a successful build and
\* with CL_INVALID_KERNEL_DEFINITION when two successfully built devices
\* differ in the kernel's argument signature, creating no kernel in either
\* case; it succeeds only when a device is built and all built devices
\* agree.
C28_CreateKernelErrors ==
    pret.op = "create_kernel" /\ pret.name # NullName =>
        LET valid == GetDevicesWithValidBuild(prog)
            differ == Cardinality(KernelArgsSet(prog, pret.name)) > 1
        IN /\ valid = {} => /\ pret.rc = "CL_INVALID_PROGRAM_EXECUTABLE"
                            /\ pret.created = <<>>
           /\ valid # {} /\ differ
                 => /\ pret.rc = "CL_INVALID_KERNEL_DEFINITION"
                    /\ pret.created = <<>>
           /\ pret.rc = "CL_SUCCESS" => valid # {} /\ ~differ

\* the state the destruction of the Queue leaves
C29_Destroyed ==
    chan = "closed" =>
        /\ pending = <<>>
        /\ Range(queued) \subseteq Range(Flatten(sent))
        /\ Last(sent) # <<>> => Resolved(ev[Last(Last(sent))].status)

\* the state in which the worker has left its loop
C29_Terminated ==
    wpc = "exit" =>
        /\ chan = "closed"
        /\ recvd = Len(sent)
        /\ \A e \in Range(Flatten(sent)) : Resolved(ev[e].status)
        /\ \A e \in Range(queued) : Resolved(ev[e].status)

ReqLocal(req, i) ==
    IF req.lws.null \/ i > req.work_dim THEN 0 ELSE req.lws.a[i]
ReqOffset(req, i) ==
    IF req.gwo.null \/ i > req.work_dim THEN 0 ELSE req.gwo.a[i]

\* the launch w is what the request req asks for
LaunchAsClaimed(req, w) ==
    LET max == DevMaxBlockSizes[1]
        offs == kern.internal_args[1].offset
    IN /\ ReqLocal(req, 1) = 0 /\ req.gws.a[1] % max = 0
             => w.block[1] = max /\ w.grid[1] = req.gws.a[1] \div max
       /\ ReqLocal(req, 1) = 0 /\ req.gws.a[1] % max # 0
             => w.block[1] = 1 /\ w.grid[1] = req.gws.a[1]
       /\ \A i \in 2..req.work_dim :
              ReqLocal(req, i) = 0 => w.block[i] = 1 /\ w.grid[i] = req.gws.a[i]
       /\ \A i \in 1..req.work_dim :
              ReqLocal(req, i) # 0 => w.block[i] = ReqLocal(req, i)
       /\ \A i \in (req.work_dim + 1)..3 : w.block[i] = 1 /\ w.grid[i] = 1
       /\ SubSeq(w.input, offs + 1, offs + 24) =
              LE8(ReqOffset(req, 1)) \o LE8(ReqOffset(req, 2))
                  \o LE8(ReqOffset(req, 3))
       /\ \A i \in 1..3 : w.block[i] # 0

\* C30: what launch hands to the backend for a request: in dimension 0 a
\* zero block size becomes the device's maximum block size of that
\* dimension, the grid divided by it, when the grid is a multiple of it,
\* and 1 otherwise; in dimensions 1 and 2 a zero block size becomes 1;
\* the dimensions from work_dim on have block 1, grid 1 and offset 0; no
\* block size is 0.
C30_LaunchBlockSizes ==
    /\ [](\A i \in 1..Len(launches), c \in 1..3 : launches[i].block[c] # 0)
    /\ [][Len(ev') = Len(ev) + 1 /\ Last(ev').work.k = "launch" =>
            \A req \in LaunchRequests :
                Last(ev').work = NDRangeClosure(kern, values, req)
                    => LaunchAsClaimed(req, Last(ev').work)]_vars

C30_Witness ==
    \E i \in 1..Len(launches) :
        /\ launches[i].work_dim = 2
        /\ launches[i].block = <<4, 1, 1>>
        /\ launches[i].grid = <<1, 6, 1>>

\* the last byte a rect call addresses in a buffer and whether all its bytes
\* lie inside size bytes, as numbers and not as machine words: an origin
\* near 2^64 is outside
RectLastByte(origin, region, row_pitch, slice_pitch) ==
    (origin[1] + region[1] - 1) + (origin[2] + region[2] - 1) * row_pitch
        + (origin[3] + region[3] - 1) * slice_pitch
RectInBounds(origin, region, row_pitch, slice_pitch, size) ==
    /\ \A i \in 1..3 : origin[i] >= 0
    /\ RectLastByte(origin, region, row_pitch, slice_pitch) < size

\* every buffer side of the call of ovl lies inside its buffer
RectCallInBounds ==
    IF "op" \in DOMAIN ovl
    THEN RectInBounds(ovl.buffer_origin, ovl.region, RectPitches(ovl)[1],
                      RectPitches(ovl)[2], CopyBufferSize)
    ELSE /\ RectInBounds(ovl.src_origin, ovl.region, CopyRowPitch(ovl),
                         CopySlicePitch(ovl), CopyBufferSize)
         /\ RectInBounds(ovl.dst_origin, ovl.region, CopyRowPitch(ovl),
                         CopySlicePitch(ovl), CopyBufferSize)

\* C31: every accepted read-rect, write-rect or copy-rect call addresses only
\* bytes inside the buffer: for each buffer side the last byte, at
\* (origin[0]+region[0]-1) + (origin[1]+region[1]-1)*row_pitch
\* + (origin[2]+region[2]-1)*slice_pitch with the effective pitches, is below
\* the buffer's size, for every machine word the arguments can hold.
C31_AcceptedRectInBounds ==
    ovl.out = "CL_SUCCESS" => RectCallInBounds

\* the arguments of the call of ovl other than the origin are valid: the
\* access is allowed, the region has no 0, a row pitch is 0 or at least
\* region[0], a slice pitch is 0 or a multiple of the row pitch that is at
\* least region[1] * row_pitch
PitchesValid(region, row_pitch, slice_pitch) ==
    LET rp == RectRowPitch(row_pitch, region)
    IN /\ row_pitch = 0 \/ row_pitch >= region[1]
       /\ \/ slice_pitch = 0
          \/ slice_pitch >= region[2] * rp /\ slice_pitch % rp = 0
RectCallValid ==
    /\ ovl.out # "none"
    /\ ~ContainsZero(ovl.region)
    /\ IF "op" \in DOMAIN ovl
       THEN /\ ovl.buf_flags = {}
            /\ PitchesValid(ovl.region, ovl.buffer_row_pitch,
                            ovl.buffer_slice_pitch)
            /\ PitchesValid(ovl.region, ovl.host_row_pitch,
                            ovl.host_slice_pitch)
       ELSE PitchesValid(ovl.region, ovl.row_pitch, ovl.slice_pitch)

\* C32: a rect call is rejected as out of bounds only if some byte it
\* addresses lies outside the buffer: a call whose bytes all lie inside and
\* whose other arguments are valid is not rejected with CL_INVALID_VALUE.
C32_InBoundsRectAccepted ==
    RectCallValid /\ RectCallInBounds => ovl.out # "CL_INVALID_VALUE"

\* C33: enqueue_ndrange_kernel returns CL_INVALID_WORK_ITEM_SIZE and enqueues
\* nothing whenever local_work_size[i] exceeds the device's maximum
\* work-item size of dimension i for some i below work_dim: no launch that
\* was enqueued has such a block size.
C33_WorkItemSizeChecked ==
    \A e \in 1..Len(ev) :
        ev[e].work.k = "launch" =>
            \A i \in 1..ev[e].work.work_dim :
                ev[e].work.block[i] <= DevMaxBlockSizes[i]

\* the input a kernel built for device d alone hands to d's shader
OwnInput(d) ==
    Launch(KernelNew(kern.nirs[d]), values, 1, <<1>>, <<1>>, ZERO_ARR).input

\* C34: for a kernel whose program is built for several devices, a launch on
\* device d places each argument at the offset d's own optimised shader
\* assigned and leaves out exactly the arguments d's shader eliminated,
\* whatever the layouts of the other devices.
C34_LaunchUsesOwnLayout ==
    \A e \in 1..Len(ev) :
        ev[e].work.k = "launch_on" =>
            ev[e].work.launch.input = OwnInput(ev[e].work.dev)

\* C35: when finish_queue returns, every event queued on the queue before
\* the call has a resolved status, also the events an earlier flush without
\* wait handed to the worker, so that nothing is pending when finish_queue
\* is called.
C35_FinishWaitsForAll ==
    [][\A t \in Threads :
           pc[t] \in {"flush_wait", "flush_ret"} /\ pc'[t] = "idle" =>
               \A i \in 1..Len(queued) : Resolved(ev'[queued[i]].status)]_vars

\* the events the blocking calls of thread t enqueued
BlockingEvents(t) ==
    {e \in 1..Len(ev) : ev[e].work = BlockingCommand(t, ev[e].work.r)}

\* C36: when a blocking write-buffer, read-rect or write-rect call returns
\* success, the event the call enqueued has a resolved status, under every
\* interleaving with the queue() and flush() calls of other threads between
\* the call's own queue() and its flush(true).
C36_BlockingCallWaits ==
    [][\A t \in Threads :
           pc[t] \in {"flush_wait", "flush_ret"} /\ pc'[t] = "idle" =>
               \A e \in BlockingEvents(t) : Resolved(ev'[e].status)]_vars

\* event e was handed to the worker: it is in a batch sent over the channel
Handed(e) == e <= Len(ev) /\ \E b \in 1..Len(sent) : e \in Range(sent[b])

\* the worker waits on a dependency without a status that sits later in its
\* batch or in a later batch of its queue
WaitsOnLater ==
    /\ wpc = "deps"
    /\ wj <= Len(ev[Batch[wi]].deps)
    /\ LET d == ev[Batch[wi]].deps[wj]
       IN /\ ~Resolved(ev[d].status)
          /\ \/ \E i \in (wi + 1)..Len(Batch) : Batch[i] = d
             \/ \E b \in (recvd + 1)..Len(sent) : d \in Range(sent[b])

\* C37: every event handed to the queue's worker eventually gets a status,
\* when every closure terminates and every dependency of another queue is
\* resolved: the worker never waits on a dependency that sits later in its
\* batch or in a later batch of its own queue, under every interleaving of
\* threads that create events, the handle being published before the event
\* is queued, and queue them.
C37_HandedEventsResolve ==
    /\ [](~WaitsOnLater)
    /\ \A e \in 1..MaxEvents :
           Handed(e) ~> (e <= Len(ev) /\ Resolved(ev[e].status))

\* the worker is inside a closure that uses the queue's context
WorkerOnContext == \E e \in running : UsesContext(ev[e].work)

\* C38: the queue's backend context is never used by two threads at once:
\* while the worker executes a closure on it, no caller thread issues a
\* backend call on the same context, neither to build the constant buffer
\* of a launch at enqueue time nor to map a buffer.
C38_ContextOneThread ==
    /\ [](\A t \in Threads : pc[t] = "map_call" => ~WorkerOnContext)
    /\ [][Len(ev') = Len(ev) + 1 /\ Last(ev').work.k = "launch"
              /\ Last(ev').work.host_calls > 0 => ~WorkerOnContext]_vars

\* C39: for every accepted launch request the block and grid sizes handed to
\* the backend multiply to the requested global work size:
\* block[i] * grid[i] = global_work_size[i] for every i below work_dim.
C39_BlockTimesGrid ==
    [][Len(ev') = Len(ev) + 1 /\ Last(ev').work.k = "launch" =>
           \A req \in WorkItemRequests :
               Last(ev').work = NDRangeClosure(kern, values, req) =>
                   \A i \in 1..req.work_dim :
                       Last(ev').work.block[i] * Last(ev').work.grid[i]
                           = req.gws.a[i]]_vars

\* the byte addresses, in the parent buffer, that sw_copy touches on one side
\* of the call of ovl: region bytes from origin, with the side's sub-buffer
\* offset and pitches
SideBytes(origin, offset, row_pitch, slice_pitch) ==
    {CopyStart(<<origin[1] + x, origin[2] + y, origin[3] + z>>, offset,
               row_pitch, slice_pitch) :
         x \in 0..(ovl.region[1] - 1), y \in 0..(ovl.region[2] - 1),
         z \in 0..(ovl.region[3] - 1)}

\* C40: every copy-rect call accepted with a source and a destination of the
\* same root buffer has disjoint source and destination bytes, each side
\* taken with its own origin, sub-buffer offset and effective pitches, also
\* when the destination pitches differ from the source pitches.
C40_AcceptedCopyDisjoint ==
    ovl.out = "CL_SUCCESS" =>
        SideBytes(ovl.src_origin, ovl.src_offset, CopyPitches(ovl)[1],
                  CopyPitches(ovl)[2])
            \cap SideBytes(ovl.dst_origin, ovl.dst_offset, CopyPitches(ovl)[3],
                           CopyPitches(ovl)[4]) = {}
====
